---- MODULE Spec2Model ----
(***************************************************************************)
(* A model of ccusageview's report pipeline: the JSON text layer, the      *)
(* share codec (utils/compression.ts), the hash payload builder and        *)
(* restorer and parseInputs (App.tsx), and the grouping and merge          *)
(* primitives (utils/aggregate.ts, utils/merge.ts).                        *)
(*                                                                         *)
(* A text is a sequence of lexical tokens [k, s, n]: punctuation, white    *)
(* space, literals.  A JSON value is a record [t, n, s, keys, el]; every   *)
(* value carries all five fields so that any two values can be compared.   *)
(***************************************************************************)
EXTENDS Integers, Sequences, FiniteSets, TLC

VARIABLES text, encoded, decoded, hash, loaded, cpc,
          arrays, keyFnUsed, out, gpc,
          shared, payload, restored, spc,
          pasted, result, ppc,
          given, adaptOut, detectOut, normOut, npc,
          samples, fraction, quantile, described, labeled, statSources, tpc,
          pricedName, pricing, pricedEntry, costs, kpc,
          cliOut,
          heap, heapBefore, held, heldValues, valuesBefore, called, firstResult, secondResult, fpc,
          kv, kvBefore, posted, request, response, served,
          status, locationHash, inFlight, timers, settled,
          tabInputs, activeTab, created, lastTabOp, inputsWas, activeWas

codecVars == <<text, encoded, decoded, hash, loaded, cpc>>
aggVars == <<arrays, keyFnUsed, out, gpc>>
shareVars == <<shared, payload, restored, spc>>
parseVars == <<pasted, result, ppc>>
normVars == <<given, adaptOut, detectOut, normOut, npc>>
statVars == <<samples, fraction, quantile, described, labeled, statSources, tpc>>
priceVars == <<pricedName, pricing, pricedEntry, costs, kpc>>
cliVars == <<cliOut>>
frameVars == <<heap, heapBefore, held, heldValues, valuesBefore, called, firstResult, secondResult, fpc>>
storeVars == <<kv, kvBefore, posted, request, response, served>>
buttonVars == <<status, locationHash, inFlight, timers, settled>>
tabVars == <<tabInputs, activeTab, created, lastTabOp, inputsWas, activeWas>>
vars == <<text, encoded, decoded, hash, loaded, cpc, arrays, keyFnUsed, out, gpc,
          shared, payload, restored, spc, pasted, result, ppc,
          given, adaptOut, detectOut, normOut, npc,
          samples, fraction, quantile, described, labeled, statSources, tpc,
          pricedName, pricing, pricedEntry, costs, kpc,
          cliOut,
          heap, heapBefore, held, heldValues, valuesBefore, called, firstResult, secondResult, fpc,
          kv, kvBefore, posted, request, response, served,
          status, locationHash, inFlight, timers, settled,
          tabInputs, activeTab, created, lastTabOp, inputsWas, activeWas>>

(***************************************************************************)
(* Bounds of the model.                                                    *)
(***************************************************************************)
MaxTextLen == 3
MaxEntries == 3

(***************************************************************************)
(* Tokens and JSON values.                                                 *)
(***************************************************************************)
Tok(k) == [k |-> k, s |-> "", n |-> 0]
WS == Tok("ws")
NumTok(n) == [k |-> "num", s |-> "", n |-> n]
\* a number literal beyond the range of a double, such as 1e400
HugeTok == [k |-> "num", s |-> "1e400", n |-> 0]
StrTok(s) == [k |-> "str", s |-> s, n |-> 0]

JNull == [t |-> "null", n |-> 0, s |-> "", keys |-> <<>>, el |-> <<>>]
JUndefined == [t |-> "undefined", n |-> 0, s |-> "", keys |-> <<>>, el |-> <<>>]
JBool(b) == [t |-> "bool", n |-> IF b THEN 1 ELSE 0, s |-> "", keys |-> <<>>, el |-> <<>>]
JNum(n) == [t |-> "num", n |-> n, s |-> "", keys |-> <<>>, el |-> <<>>]
\* the double Infinity, which JSON.parse returns for an overflowing literal
JInfinity == [t |-> "num", n |-> 0, s |-> "Infinity", keys |-> <<>>, el |-> <<>>]
JStr(s) == [t |-> "str", n |-> 0, s |-> s, keys |-> <<>>, el |-> <<>>]
JArr(el) == [t |-> "arr", n |-> 0, s |-> "", keys |-> <<>>, el |-> el]
JObj(keys, el) == [t |-> "obj", n |-> 0, s |-> "", keys |-> keys, el |-> el]

RECURSIVE IndexOf(_, _, _)
\* first index i >= from with seq[i] = x, or 0
IndexOf(seq, x, from) ==
  IF from > Len(seq) THEN 0
  ELSE IF seq[from] = x THEN from
  ELSE IndexOf(seq, x, from + 1)

\* the member of a one-element set.  Only({e : x \in {v}}) is e with x bound
\* to the value of v, computed once: const x = v; ... e
Only(S) == CHOOSE y \in S : TRUE

HasKey(obj, key) == obj.t = "obj" /\ IndexOf(obj.keys, key, 1) > 0

\* obj[key]: undefined when the property is missing
Get(obj, key) ==
  IF HasKey(obj, key) THEN obj.el[IndexOf(obj.keys, key, 1)] ELSE JUndefined

\* obj[key] = v: a new property goes last, an existing one keeps its place
SetKey(obj, key, v) ==
  IF HasKey(obj, key)
  THEN [obj EXCEPT !.el[IndexOf(obj.keys, key, 1)] = v]
  ELSE [obj EXCEPT !.keys = Append(@, key), !.el = Append(@, v)]

(***************************************************************************)
(* JSON.parse: recursive descent over the tokens, white space skipped      *)
(* between tokens.  A failure carries the position and kind of the token   *)
(* the syntax error names.                                                 *)
(***************************************************************************)
ParseOk(v, p) == [ok |-> TRUE, v |-> v, p |-> p, tok |-> ""]
ParseFail(ts, p) ==
  [ok |-> FALSE, v |-> JUndefined, p |-> p,
   tok |-> IF p > Len(ts) THEN "end" ELSE ts[p].k]

RECURSIVE SkipWs(_, _)
SkipWs(ts, p) ==
  IF p <= Len(ts) /\ ts[p].k = "ws" THEN SkipWs(ts, p + 1) ELSE p

RECURSIVE ParseValue(_, _), ParseElements(_, _, _), ParseMembers(_, _, _)
ParseValue(ts, p0) ==
  LET p == SkipWs(ts, p0) IN
  IF p > Len(ts) THEN ParseFail(ts, p)
  ELSE LET k == ts[p].k IN
    CASE k = "null" -> ParseOk(JNull, p + 1)
      [] k = "true" -> ParseOk(JBool(TRUE), p + 1)
      [] k = "false" -> ParseOk(JBool(FALSE), p + 1)
      [] k = "num" -> ParseOk(IF ts[p].s = "" THEN JNum(ts[p].n) ELSE JInfinity, p + 1)
      [] k = "str" -> ParseOk(JStr(ts[p].s), p + 1)
      [] k = "[" ->
           LET q == SkipWs(ts, p + 1) IN
           IF q <= Len(ts) /\ ts[q].k = "]" THEN ParseOk(JArr(<<>>), q + 1)
           ELSE ParseElements(ts, p + 1, JArr(<<>>))
      [] k = "{" ->
           LET q == SkipWs(ts, p + 1) IN
           IF q <= Len(ts) /\ ts[q].k = "}" THEN ParseOk(JObj(<<>>, <<>>), q + 1)
           ELSE ParseMembers(ts, p + 1, JObj(<<>>, <<>>))
      [] OTHER -> ParseFail(ts, p)

ParseElements(ts, p, acc) ==
  LET r == ParseValue(ts, p) IN
  IF ~r.ok THEN r
  ELSE LET q == SkipWs(ts, r.p)
           arr == JArr(Append(acc.el, r.v)) IN
    IF q > Len(ts) THEN ParseFail(ts, q)
    ELSE IF ts[q].k = "," THEN ParseElements(ts, q + 1, arr)
    ELSE IF ts[q].k = "]" THEN ParseOk(arr, q + 1)
    ELSE ParseFail(ts, q)

ParseMembers(ts, p, acc) ==
  LET kp == SkipWs(ts, p) IN
  IF kp > Len(ts) \/ ts[kp].k # "str" THEN ParseFail(ts, kp)
  ELSE LET cp == SkipWs(ts, kp + 1) IN
    IF cp > Len(ts) \/ ts[cp].k # ":" THEN ParseFail(ts, cp)
    ELSE LET r == ParseValue(ts, cp + 1) IN
      IF ~r.ok THEN r
      ELSE LET q == SkipWs(ts, r.p)
               obj == SetKey(acc, ts[kp].s, r.v) IN
        IF q > Len(ts) THEN ParseFail(ts, q)
        ELSE IF ts[q].k = "," THEN ParseMembers(ts, q + 1, obj)
        ELSE IF ts[q].k = "}" THEN ParseOk(obj, q + 1)
        ELSE ParseFail(ts, q)

JSONparse(ts) ==
  LET r == ParseValue(ts, 1) IN
  IF ~r.ok THEN r
  ELSE LET q == SkipWs(ts, r.p) IN
    IF q <= Len(ts) THEN ParseFail(ts, q) ELSE r

(***************************************************************************)
(* JSON.stringify(v) and JSON.stringify(v, null, 2).  A non-finite number  *)
(* is written null, an undefined array element too, and an undefined       *)
(* member is left out.  With an indent, every element and member of a      *)
(* non-empty array or object goes on a line of its own.                    *)
(***************************************************************************)
RECURSIVE Stringify(_, _), StringifyItems(_, _, _)
Stringify(v, indent) ==
  CASE v.t = "null" -> <<Tok("null")>>
    [] v.t = "undefined" -> <<Tok("null")>>
    [] v.t = "bool" -> <<Tok(IF v.n = 1 THEN "true" ELSE "false")>>
    [] v.t = "num" -> IF v.s = "" THEN <<NumTok(v.n)>> ELSE <<Tok("null")>>
    [] v.t = "str" -> <<StrTok(v.s)>>
    [] v.t = "arr" ->
         IF v.el = <<>> THEN <<Tok("["), Tok("]")>>
         ELSE <<Tok("[")>> \o StringifyItems(v, 1, indent)
              \o (IF indent THEN <<WS>> ELSE <<>>) \o <<Tok("]")>>
    [] v.t = "obj" ->
         LET kept == SelectSeq([i \in 1..Len(v.el) |-> i],
                               LAMBDA i : v.el[i].t # "undefined")
             w == JObj([i \in 1..Len(kept) |-> v.keys[kept[i]]],
                       [i \in 1..Len(kept) |-> v.el[kept[i]]]) IN
         IF w.el = <<>> THEN <<Tok("{"), Tok("}")>>
         ELSE <<Tok("{")>> \o StringifyItems(w, 1, indent)
              \o (IF indent THEN <<WS>> ELSE <<>>) \o <<Tok("}")>>

StringifyItems(v, i, indent) ==
  IF i > Len(v.el) THEN <<>>
  ELSE (IF i > 1 THEN <<Tok(",")>> ELSE <<>>)
       \o (IF indent THEN <<WS>> ELSE <<>>)
       \o (IF v.t = "obj"
           THEN <<StrTok(v.keys[i]), Tok(":")>> \o (IF indent THEN <<WS>> ELSE <<>>)
           ELSE <<>>)
       \o Stringify(v.el[i], indent)
       \o StringifyItems(v, i + 1, indent)

JSONstringify(v) == Stringify(v, FALSE)
JSONstringifyPretty(v) == Stringify(v, TRUE)

(***************************************************************************)
(* lz-string's compressToEncodedURIComponent and its inverse, as a         *)
(* dictionary coder: the distinct tokens in order of first appearance,     *)
(* then one code per token, then the end-of-stream code 0.  A string is    *)
(* nullable: [isNull, str].                                                *)
(***************************************************************************)
Str(ts) == [isNull |-> FALSE, str |-> ts]
NullStr == [isNull |-> TRUE, str |-> <<>>]

RECURSIVE Dictionary(_, _, _)
Dictionary(ts, i, dict) ==
  IF i > Len(ts) THEN dict
  ELSE Dictionary(ts, i + 1,
         IF IndexOf(dict, ts[i], 1) = 0 THEN Append(dict, ts[i]) ELSE dict)

compressToEncodedURIComponent(ts) ==
  LET dict == Dictionary(ts, 1, <<>>) IN
  [dict |-> dict,
   codes |-> [i \in 1..(Len(ts) + 1) |->
                IF i > Len(ts) THEN 0 ELSE IndexOf(dict, ts[i], 1)]]

EmptyEncoded == [dict |-> <<>>, codes |-> <<>>]

decompressFromEncodedURIComponent(enc) ==
  LET n == Len(enc.codes) IN
  IF n = 0 THEN NullStr
  ELSE IF enc.codes[n] # 0
          \/ \E i \in 1..(n - 1) : enc.codes[i] < 1 \/ enc.codes[i] > Len(enc.dict)
       THEN NullStr
  ELSE Str([i \in 1..(n - 1) |-> enc.dict[enc.codes[i]]])

(***************************************************************************)
(* utils/compression.ts.  A call that can throw returns [threw, val].      *)
(***************************************************************************)
HASH_PREFIX == "#data="

\* the mutant of encodePayload that compresses the text as given
encodePayloadUnminified(jsonString) ==
  LET parsed == JSONparse(jsonString) IN
  IF ~parsed.ok THEN [threw |-> TRUE, val |-> EmptyEncoded]
  ELSE [threw |-> FALSE, val |-> compressToEncodedURIComponent(jsonString)]

encodePayload(jsonString) ==
  LET parsed == JSONparse(jsonString) IN
  IF ~parsed.ok THEN [threw |-> TRUE, val |-> EmptyEncoded]
  ELSE LET minified == JSONstringify(parsed.v) IN
       [threw |-> FALSE, val |-> compressToEncodedURIComponent(minified)]

decodePayload(enc) == decompressFromEncodedURIComponent(enc)

NoHash == [prefix |-> "", body |-> EmptyEncoded]

buildHash(jsonString) ==
  LET e == encodePayload(jsonString) IN
  IF e.threw THEN [threw |-> TRUE, val |-> NoHash]
  ELSE [threw |-> FALSE, val |-> [prefix |-> HASH_PREFIX, body |-> e.val]]

loadFromHash(h) ==
  IF h.prefix # HASH_PREFIX THEN NullStr
  ELSE IF h.body.codes = <<>> THEN NullStr
  ELSE decodePayload(h.body)

(***************************************************************************)
(* The codec's inputs: every token sequence up to MaxTextLen, and a few    *)
(* longer documents in minified, indented and padded form.                 *)
(***************************************************************************)
CodecAlphabet ==
  {Tok("["), Tok("]"), Tok(","), Tok("{"), Tok("}"), Tok(":"), WS,
   NumTok(1), HugeTok, StrTok("a")}

SampleDocs ==
  {JObj(<<"a">>, <<JArr(<<JNum(1), JNum(2)>>)>>),
   JObj(<<"a", "b">>, <<JNum(1), JObj(<<"c">>, <<JNull>>)>>),
   JArr(<<JObj(<<"a">>, <<JStr("x")>>), JBool(TRUE), JInfinity>>)}

CodecTexts ==
  UNION {[1..m -> CodecAlphabet] : m \in 0..MaxTextLen}
  \cup {JSONstringify(v) : v \in SampleDocs}
  \cup {JSONstringifyPretty(v) : v \in SampleDocs}
  \cup {<<WS>> \o JSONstringify(v) \o <<WS>> : v \in SampleDocs}
  \cup {<<Tok("{"), StrTok("a"), Tok(":"), NumTok(1), Tok(","), StrTok("a"),
          Tok(":"), NumTok(2), Tok("}")>>,
        <<Tok("{"), StrTok("a"), Tok(":"), HugeTok, Tok("}")>>,
        <<Tok("{"), StrTok("a"), NumTok(1), Tok("}")>>}

CodecIdle ==
  /\ text = <<>>
  /\ encoded = [threw |-> FALSE, val |-> EmptyEncoded]
  /\ decoded = NullStr
  /\ hash = [threw |-> FALSE, val |-> NoHash]
  /\ loaded = NullStr
  /\ cpc = "idle"

NoInputs == [isNull |-> TRUE, list |-> <<>>]

ShareIdle ==
  /\ shared = <<>>
  /\ payload = [threw |-> FALSE, val |-> NullStr]
  /\ restored = NoInputs
  /\ spc = "idle"

\* the result of parseInputs: data and error are nullable, threw tells an
\* exception that left parseInputs
NoData ==
  [isNull |-> TRUE, entries |-> <<>>,
   totals |-> [inputTokens |-> 0, outputTokens |-> 0, cacheCreationTokens |-> 0,
               cacheReadTokens |-> 0, totalTokens |-> 0, totalCost |-> 0],
   reportType |-> "", sourceLabels |-> <<>>]
NoError == [isNull |-> TRUE, msg |-> "", pos |-> 0, tok |-> "", types |-> <<>>]
NoResult == [threw |-> FALSE, data |-> NoData, error |-> NoError]

ParseIdle ==
  /\ pasted = <<>>
  /\ result = NoResult
  /\ ppc = "idle"

\* no call of adaptReport, detectReportType or normalize* was made
NotCalled == [threw |-> FALSE, msg |-> "", val |-> JUndefined]

NormIdle ==
  /\ given = JNull
  /\ adaptOut = NotCalled
  /\ detectOut = NotCalled
  /\ normOut = [entries |-> NotCalled, totals |-> NotCalled]
  /\ npc = "idle"

\* a number: a finite rational n/d in lowest terms, an infinity of sign n,
\* or NaN
Fin(n) == [k |-> "fin", n |-> n, d |-> 1]
Infinity == [k |-> "inf", n |-> 1, d |-> 1]
NaN == [k |-> "nan", n |-> 0, d |-> 1]
\* a number c * sqrt(rad), for what Math.sqrt returns
Root(c, rad) == [c |-> c, rad |-> rad]

NoStats ==
  [count |-> 0, min |-> Fin(0), max |-> Fin(0), sum |-> Fin(0), mean |-> Fin(0),
   median |-> Fin(0), standardDeviation |-> Root(Fin(0), Fin(1)),
   coefficientOfVariation |-> Root(NaN, Fin(1)), skewness |-> Root(NaN, Fin(1)),
   p25 |-> Fin(0), p75 |-> Fin(0), p90 |-> Fin(0), p95 |-> Fin(0), p99 |-> Fin(0),
   iqr |-> Fin(0)]

StatIdle ==
  /\ samples = <<>>
  /\ fraction = Fin(0)
  /\ quantile = Fin(0)
  /\ described = NoStats
  /\ labeled = <<>>
  /\ statSources = <<>>
  /\ tpc = "idle"

PriceIdle ==
  /\ pricedName = <<>>
  /\ pricing = <<>>
  /\ pricedEntry = <<>>
  /\ costs = <<>>
  /\ kpc = "idle"

CliIdle ==
  cliOut = [threw |-> FALSE, val |-> [isNull |-> TRUE, str |-> <<>>]]

FrameIdle ==
  /\ heap = <<>>
  /\ heapBefore = <<>>
  /\ held = <<>>
  /\ heldValues = <<>>
  /\ valuesBefore = <<>>
  /\ called = [op |-> "", keyFn |-> "", cut |-> 0]
  /\ firstResult = <<>>
  /\ secondResult = <<>>
  /\ fpc = "idle"

StoreIdle ==
  /\ kv = <<>>
  /\ kvBefore = <<>>
  /\ posted = <<>>
  /\ request = <<>>
  /\ response = <<>>
  /\ served = 0

ButtonIdle ==
  /\ status = "idle"
  /\ locationHash = ""
  /\ inFlight = {}
  /\ timers = 0
  /\ settled = <<>>

TabIdle ==
  /\ tabInputs = <<>>
  /\ activeTab = 0
  /\ created = 0
  /\ lastTabOp = [op |-> "", index |-> 0]
  /\ inputsWas = <<>>
  /\ activeWas = 0

AggIdle ==
  /\ arrays = <<>>
  /\ keyFnUsed = ""
  /\ out = <<>>
  /\ gpc = "idle"

InitCodec ==
  /\ text \in CodecTexts
  /\ encoded = [threw |-> FALSE, val |-> EmptyEncoded]
  /\ decoded = NullStr
  /\ hash = [threw |-> FALSE, val |-> NoHash]
  /\ loaded = NullStr
  /\ cpc = "start"
  /\ AggIdle
  /\ ShareIdle
  /\ ParseIdle
  /\ NormIdle
  /\ StatIdle
  /\ PriceIdle
  /\ CliIdle
  /\ FrameIdle
  /\ StoreIdle
  /\ ButtonIdle
  /\ TabIdle

EncodePayload ==
  /\ cpc = "start"
  /\ encoded' = encodePayload(text)
  /\ cpc' = "encoded"
  /\ UNCHANGED <<text, decoded, hash, loaded>>
  /\ UNCHANGED <<aggVars, shareVars, parseVars, normVars, statVars, priceVars, cliVars, frameVars, storeVars, buttonVars, tabVars>>

DecodePayload ==
  /\ cpc = "encoded"
  /\ ~encoded.threw
  /\ decoded' = decodePayload(encoded.val)
  /\ cpc' = "decoded"
  /\ UNCHANGED <<text, encoded, hash, loaded>>
  /\ UNCHANGED <<aggVars, shareVars, parseVars, normVars, statVars, priceVars, cliVars, frameVars, storeVars, buttonVars, tabVars>>

BuildHash ==
  /\ cpc = "decoded" \/ (cpc = "encoded" /\ encoded.threw)
  /\ hash' = buildHash(text)
  /\ cpc' = "hashed"
  /\ UNCHANGED <<text, encoded, decoded, loaded>>
  /\ UNCHANGED <<aggVars, shareVars, parseVars, normVars, statVars, priceVars, cliVars, frameVars, storeVars, buttonVars, tabVars>>

LoadFromHash ==
  /\ cpc = "hashed"
  /\ ~hash.threw
  /\ loaded' = loadFromHash(hash.val)
  /\ cpc' = "loaded"
  /\ UNCHANGED <<text, encoded, decoded, hash>>
  /\ UNCHANGED <<aggVars, shareVars, parseVars, normVars, statVars, priceVars, cliVars, frameVars, storeVars, buttonVars, tabVars>>

NextCodec == EncodePayload \/ DecodePayload \/ BuildHash \/ LoadFromHash

SpecCodec == InitCodec /\ [][NextCodec]_vars

(***************************************************************************)
(* C1.                                                                     *)
(***************************************************************************)
StripWs(ts) == SelectSeq(ts, LAMBDA x : x.k # "ws")
HasHuge(ts) == \E i \in 1..Len(ts) : ts[i] = HugeTok
Minified(ts) == JSONstringify(JSONparse(ts).v)

\* C1 as stated: whenever the text is valid JSON, the decoded payload parses
\* to a value deep-equal to JSON.parse of the text.
C1_RoundTripAnyText ==
  (cpc \in {"decoded", "hashed", "loaded"} /\ JSONparse(text).ok) =>
    /\ ~decoded.isNull
    /\ JSONparse(decoded.str).ok
    /\ JSONparse(decoded.str).v = JSONparse(text).v

\* C1 amended: encodePayload throws exactly on invalid JSON; for valid JSON
\* the decoded payload and the text loaded from the built hash are both the
\* minified serialization JSON.stringify(JSON.parse(J)); the token is the one
\* of the text without its formatting white space and of its indented form;
\* and the decoded payload parses to a value deep-equal to JSON.parse(J) when
\* no number literal of J overflows a double.
C1_RoundTripMinified ==
  /\ (cpc # "start") => (encoded.threw <=> ~JSONparse(text).ok)
  /\ (cpc # "start" /\ ~encoded.threw) =>
       /\ encoded = encodePayload(StripWs(text))
       /\ encoded = encodePayload(JSONstringifyPretty(JSONparse(text).v))
  /\ (cpc \in {"decoded", "hashed", "loaded"} /\ JSONparse(text).ok) =>
       /\ decoded = Str(Minified(text))
       /\ StripWs(decoded.str) = decoded.str
       /\ JSONparse(decoded.str).ok
       /\ ~HasHuge(text) => JSONparse(decoded.str).v = JSONparse(text).v
  /\ (cpc = "hashed") => (hash.threw <=> ~JSONparse(text).ok)
  /\ (cpc = "loaded") => loaded = Str(Minified(text))

\* an indented object text has gone through buildHash and loadFromHash
C1_Witness ==
  /\ cpc = "loaded"
  /\ ~loaded.isNull
  /\ \E i \in 1..Len(text) : text[i].k = "ws"
  /\ JSONparse(text).v.t = "obj"
  /\ Len(loaded.str) < Len(text)

(***************************************************************************)
(* Strings.  TLC cannot look inside a string, so Chars lists the           *)
(* characters of every string the model sorts, slices or matches.          *)
(***************************************************************************)
Chars(s) ==
  CASE s = "" -> <<>>
    [] s = "a" -> <<"a">>
    [] s = "B" -> <<"B">>
    [] s = "2025-06" -> <<"2", "0", "2", "5", "-", "0", "6">>
    [] s = "2025-07" -> <<"2", "0", "2", "5", "-", "0", "7">>
    [] s = "2025/07" -> <<"2", "0", "2", "5", "/", "0", "7">>
    [] s = "2025-07-1" -> <<"2", "0", "2", "5", "-", "0", "7", "-", "1">>
    [] s = "2025/07/01" -> <<"2", "0", "2", "5", "/", "0", "7", "/", "0", "1">>
    [] s = "2025-07-01" -> <<"2", "0", "2", "5", "-", "0", "7", "-", "0", "1">>
    [] s = "2025-07-02" -> <<"2", "0", "2", "5", "-", "0", "7", "-", "0", "2">>
    [] s = "2025-07-012025-07-02" ->
         <<"2", "0", "2", "5", "-", "0", "7", "-", "0", "1",
           "2", "0", "2", "5", "-", "0", "7", "-", "0", "2">>
    [] s = "a-2025-07-012025-07-02" ->
         <<"a", "-", "2", "0", "2", "5", "-", "0", "7", "-", "0", "1",
           "2", "0", "2", "5", "-", "0", "7", "-", "0", "2">>
    [] s = "Jul 1, 10:00 AM" ->
         <<"J", "u", "l", " ", "1", ",", " ", "1", "0", ":", "0", "0", " ", "A", "M">>
    [] s = "Jul 1, 03:00 PM" ->
         <<"J", "u", "l", " ", "1", ",", " ", "0", "3", ":", "0", "0", " ", "P", "M">>

Digits == {"0", "1", "2", "3", "4", "5", "6", "7", "8", "9"}

\* the UTF-16 code unit of a character
CodeUnit(c) ==
  CASE c = " " -> 32 [] c = "," -> 44 [] c = "-" -> 45 [] c = ":" -> 58
    [] c = "J" -> 74 [] c = "M" -> 77 [] c = "P" -> 80 [] c = "l" -> 108 [] c = "u" -> 117
    [] c = "0" -> 48 [] c = "1" -> 49 [] c = "2" -> 50 [] c = "3" -> 51
    [] c = "4" -> 52 [] c = "5" -> 53 [] c = "6" -> 54 [] c = "7" -> 55
    [] c = "8" -> 56 [] c = "9" -> 57
    [] c = "A" -> 65 [] c = "B" -> 66 [] c = "a" -> 97 [] c = "b" -> 98

\* the primary collation weight of a character: punctuation, then digits,
\* then letters, a letter's two cases sharing one weight
PrimaryWeight(c) ==
  CASE c \in {"a", "A"} -> CodeUnit("a")
    [] c \in {"b", "B"} -> CodeUnit("b")
    [] c = "J" -> 106 [] c = "M" -> 109 [] c = "P" -> 112
    [] c = ":" -> 47
    [] OTHER -> CodeUnit(c)

\* the case weight: lower case sorts before upper case
CaseWeight(c) == IF c \in {"A", "B", "J", "M", "P"} THEN 1 ELSE 0

RECURSIVE CompareBy(_, _, _, _)
\* lexicographic comparison of two character sequences by weight W: -1, 0, 1
CompareBy(W(_), x, y, i) ==
  IF i > Len(x) /\ i > Len(y) THEN 0
  ELSE IF i > Len(x) THEN -1
  ELSE IF i > Len(y) THEN 1
  ELSE IF W(x[i]) < W(y[i]) THEN -1
  ELSE IF W(x[i]) > W(y[i]) THEN 1
  ELSE CompareBy(W, x, y, i + 1)

\* String.prototype.localeCompare: collation order, case as the tie-break
localeCompare(a, b) ==
  LET primary == CompareBy(PrimaryWeight, Chars(a), Chars(b), 1) IN
  IF primary # 0 THEN primary ELSE CompareBy(CaseWeight, Chars(a), Chars(b), 1)

\* the locale-independent order of the < operator on strings
codeUnitCompare(a, b) == CompareBy(CodeUnit, Chars(a), Chars(b), 1)

(***************************************************************************)
(* NormalizedEntry and ModelBreakdown (utils/normalize.ts, types.ts).  An  *)
(* optional modelBreakdowns is [defined, list].  A JavaScript Map or Set   *)
(* is the sequence of its entries in insertion order.                      *)
(***************************************************************************)
NUMERIC_KEYS ==
  <<"inputTokens", "outputTokens", "cacheCreationTokens", "cacheReadTokens",
    "totalTokens", "cost">>
MB_NUMERIC_KEYS ==
  <<"inputTokens", "outputTokens", "cacheCreationTokens", "cacheReadTokens", "cost">>

NoBreakdowns == [defined |-> FALSE, list |-> <<>>]
Breakdowns(list) == [defined |-> TRUE, list |-> list]

NullKey == [isNull |-> TRUE, str |-> ""]
Key(s) == [isNull |-> FALSE, str |-> s]

ZeroNumerics ==
  [inputTokens |-> 0, outputTokens |-> 0, cacheCreationTokens |-> 0,
   cacheReadTokens |-> 0, totalTokens |-> 0, cost |-> 0]

RECURSIVE SetAddAll(_, _, _)
\* for (const m of list) set.add(m)
SetAddAll(set, list, i) ==
  IF i > Len(list) THEN set
  ELSE SetAddAll(IF IndexOf(set, list[i], 1) = 0 THEN Append(set, list[i]) ELSE set,
                 list, i + 1)

RECURSIVE ModelIndex(_, _, _)
\* modelMap.get(modelName): the index of its record, or 0
ModelIndex(modelMap, modelName, i) ==
  IF i > Len(modelMap) THEN 0
  ELSE IF modelMap[i].modelName = modelName THEN i
  ELSE ModelIndex(modelMap, modelName, i + 1)

\* existing[k] += mb[k] for every k of MB_NUMERIC_KEYS
AddBreakdown(existing, mb) ==
  [existing EXCEPT !.inputTokens = @ + mb.inputTokens,
                   !.outputTokens = @ + mb.outputTokens,
                   !.cacheCreationTokens = @ + mb.cacheCreationTokens,
                   !.cacheReadTokens = @ + mb.cacheReadTokens,
                   !.cost = @ + mb.cost]

RECURSIVE MergeModelMap(_, _, _)
MergeModelMap(modelMap, breakdowns, i) ==
  IF i > Len(breakdowns) THEN modelMap
  ELSE LET mb == breakdowns[i]
           at == ModelIndex(modelMap, mb.modelName, 1) IN
       MergeModelMap(IF at > 0
                     THEN [modelMap EXCEPT ![at] = AddBreakdown(@, mb)]
                     ELSE Append(modelMap, mb),
                     breakdowns, i + 1)

\* the mutant of mergeBreakdowns that marks every bucket as having breakdowns
mergeBreakdownsAlways(bucket, breakdowns) ==
  [bucket EXCEPT !.hasBreakdowns = TRUE,
                 !.modelMap = MergeModelMap(@, breakdowns.list, 1)]

mergeBreakdowns(bucket, breakdowns) ==
  IF ~breakdowns.defined THEN bucket
  ELSE [bucket EXCEPT !.hasBreakdowns = TRUE,
                      !.modelMap = MergeModelMap(@, breakdowns.list, 1)]

\* the mutant of AddNumerics that counts the entry twice
AddNumericsTwice(numerics, entry) ==
  [k \in DOMAIN numerics |-> numerics[k] + 2 * entry[k]]

\* bucket.numerics[k] += entry[k] for every k of NUMERIC_KEYS
AddNumerics(numerics, entry) ==
  [k \in DOMAIN numerics |-> numerics[k] + entry[k]]

NewBucket(key) ==
  [key |-> key, numerics |-> ZeroNumerics, models |-> <<>>, modelMap |-> <<>>,
   hasBreakdowns |-> FALSE]

RECURSIVE BucketIndex(_, _, _)
\* map.get(key): the index of its bucket, or 0
BucketIndex(map, key, i) ==
  IF i > Len(map) THEN 0
  ELSE IF map[i].key = key THEN i
  ELSE BucketIndex(map, key, i + 1)

\* the body of groupEntries' loop for an entry whose key is not null
GroupAccumulate(map, key, entry) ==
  LET at == BucketIndex(map, key, 1)
      map1 == IF at > 0 THEN map ELSE Append(map, NewBucket(key))
      j == IF at > 0 THEN at ELSE Len(map1) IN
  [map1 EXCEPT ![j] =
     mergeBreakdowns(
       [@ EXCEPT !.numerics = AddNumerics(@, entry),
                 !.models = SetAddAll(@, entry.models, 1)],
       entry.modelBreakdowns)]

RECURSIVE InsertByKey(_, _, _)
\* b goes after every bucket that does not sort after it: the sort is stable
InsertByKey(sorted, b, i) ==
  IF i > Len(sorted) THEN Append(sorted, b)
  ELSE IF localeCompare(sorted[i].key, b.key) > 0
       THEN SubSeq(sorted, 1, i - 1) \o <<b>> \o SubSeq(sorted, i, Len(sorted))
  ELSE InsertByKey(sorted, b, i + 1)

RECURSIVE SortByKey(_, _, _)
\* Array.from(map.entries()).toSorted(([a], [b]) => a.localeCompare(b))
SortByKey(map, i, sorted) ==
  IF i > Len(map) THEN sorted
  ELSE SortByKey(map, i + 1, InsertByKey(sorted, map[i], 1))

\* the NormalizedEntry built from one bucket
BucketEntry(b) ==
  [label |-> b.key,
   inputTokens |-> b.numerics.inputTokens,
   outputTokens |-> b.numerics.outputTokens,
   cacheCreationTokens |-> b.numerics.cacheCreationTokens,
   cacheReadTokens |-> b.numerics.cacheReadTokens,
   totalTokens |-> b.numerics.totalTokens,
   cost |-> b.numerics.cost,
   models |-> b.models,
   modelBreakdowns |-> IF b.hasBreakdowns THEN Breakdowns(b.modelMap) ELSE NoBreakdowns]

BucketsToEntries(map) ==
  LET sorted == SortByKey(map, 1, <<>>) IN
  [i \in 1..Len(sorted) |-> BucketEntry(sorted[i])]

(***************************************************************************)
(* utils/aggregate.ts: groupEntries and sumEntries.  A key function is     *)
(* named: "label" is (e) => e.label, "labelOrNull" returns null for        *)
(* SkipLabel and the label otherwise, "month" is aggregateToMonthly's.     *)
(***************************************************************************)
KnownStrings ==
  {"", "a", "B", "2025-06", "2025-07", "2025/07", "2025-07-1", "2025/07/01",
   "2025-07-01", "2025-07-02", "2025-07-012025-07-02", "a-2025-07-012025-07-02",
   "Jul 1, 10:00 AM", "Jul 1, 03:00 PM"}
FromChars(cs) == CHOOSE s \in KnownStrings : Chars(s) = cs

\* s.slice(0, n)
SlicePrefix(s, n) ==
  LET cs == Chars(s) IN
  FromChars(SubSeq(cs, 1, IF Len(cs) < n THEN Len(cs) ELSE n))

\* /^\d{4}-\d{2}$/.test(s)
IsMonthText(s) ==
  LET cs == Chars(s) IN
  /\ Len(cs) = 7
  /\ \A i \in 1..Len(cs) : IF i = 5 THEN cs[i] = "-" ELSE cs[i] \in Digits

SkipLabel == "B"

\* /^\d{4}-\d{2}-\d{2}$/.test(s)
IsDateText(s) ==
  LET cs == Chars(s) IN
  /\ Len(cs) = 10
  /\ \A i \in 1..Len(cs) : IF i \in {5, 8} THEN cs[i] = "-" ELSE cs[i] \in Digits

\* the mutant of KeyOf whose month key asks for a whole YYYY-MM-DD label
KeyOfDateOnly(keyFn, e) ==
  CASE keyFn = "label" -> Key(e.label)
    [] keyFn = "labelOrNull" -> IF e.label = SkipLabel THEN NullKey ELSE Key(e.label)
    [] keyFn = "month" ->
         IF IsDateText(e.label) THEN Key(SlicePrefix(e.label, 7)) ELSE NullKey

KeyOf(keyFn, e) ==
  CASE keyFn = "label" -> Key(e.label)
    [] keyFn = "labelOrNull" -> IF e.label = SkipLabel THEN NullKey ELSE Key(e.label)
    [] keyFn = "month" ->
         LET month == SlicePrefix(e.label, 7) IN
         IF IsMonthText(month) THEN Key(month) ELSE NullKey

RECURSIVE GroupLoop(_, _, _, _)
GroupLoop(entries, keyFn, i, map) ==
  IF i > Len(entries) THEN map
  ELSE LET key == KeyOf(keyFn, entries[i]) IN
       GroupLoop(entries, keyFn, i + 1,
                 IF key.isNull THEN map ELSE GroupAccumulate(map, key.str, entries[i]))

\* the mutant of groupEntries that returns the groups in insertion order
groupEntriesUnsorted(entries, keyFn) ==
  LET map == GroupLoop(entries, keyFn, 1, <<>>) IN
  [i \in 1..Len(map) |-> BucketEntry(map[i])]

groupEntries(entries, keyFn) ==
  BucketsToEntries(GroupLoop(entries, keyFn, 1, <<>>))

RECURSIVE SumLoop(_, _, _)
SumLoop(entries, i, t) ==
  IF i > Len(entries) THEN t
  ELSE SumLoop(entries, i + 1, AddNumerics(t, entries[i]))

sumEntries(entries) ==
  LET t == SumLoop(entries, 1, ZeroNumerics) IN
  [inputTokens |-> t.inputTokens, outputTokens |-> t.outputTokens,
   cacheCreationTokens |-> t.cacheCreationTokens,
   cacheReadTokens |-> t.cacheReadTokens,
   totalTokens |-> t.totalTokens, totalCost |-> t.cost]

(***************************************************************************)
(* utils/merge.ts: mergeNormalizedEntries, with its own accumulation.      *)
(***************************************************************************)
NewMergeBucket(key) ==
  [key |-> key, inputTokens |-> 0, outputTokens |-> 0, cacheCreationTokens |-> 0,
   cacheReadTokens |-> 0, totalTokens |-> 0, cost |-> 0, models |-> <<>>,
   modelMap |-> <<>>, hasBreakdowns |-> FALSE]

RECURSIVE MergeBucketBreakdowns(_, _, _)
\* merge.ts 56-67: add a record to its same-named one, or insert a copy
MergeBucketBreakdowns(modelMap, breakdowns, i) ==
  IF i > Len(breakdowns) THEN modelMap
  ELSE LET mb == breakdowns[i]
           at == ModelIndex(modelMap, mb.modelName, 1) IN
       MergeBucketBreakdowns(
         IF at > 0
         THEN [modelMap EXCEPT ![at] =
                 [@ EXCEPT !.inputTokens = @ + mb.inputTokens,
                           !.outputTokens = @ + mb.outputTokens,
                           !.cacheCreationTokens = @ + mb.cacheCreationTokens,
                           !.cacheReadTokens = @ + mb.cacheReadTokens,
                           !.cost = @ + mb.cost]]
         ELSE Append(modelMap, mb),
         breakdowns, i + 1)

\* the mutant of MergeAccumulate that starts a fresh bucket for every entry
MergeAccumulateFresh(map, entry) ==
  Append(map,
    [NewMergeBucket(entry.label) EXCEPT
       !.inputTokens = entry.inputTokens, !.outputTokens = entry.outputTokens,
       !.cacheCreationTokens = entry.cacheCreationTokens,
       !.cacheReadTokens = entry.cacheReadTokens,
       !.totalTokens = entry.totalTokens, !.cost = entry.cost,
       !.models = SetAddAll(<<>>, entry.models, 1),
       !.hasBreakdowns = entry.modelBreakdowns.defined,
       !.modelMap = MergeBucketBreakdowns(<<>>, entry.modelBreakdowns.list, 1)])

\* merge.ts 30-68: the body of the inner loop
MergeAccumulate(map, entry) ==
  LET at == BucketIndex(map, entry.label, 1)
      map1 == IF at > 0 THEN map ELSE Append(map, NewMergeBucket(entry.label))
      j == IF at > 0 THEN at ELSE Len(map1) IN
  [map1 EXCEPT ![j] =
     [@ EXCEPT !.inputTokens = @ + entry.inputTokens,
               !.outputTokens = @ + entry.outputTokens,
               !.cacheCreationTokens = @ + entry.cacheCreationTokens,
               !.cacheReadTokens = @ + entry.cacheReadTokens,
               !.totalTokens = @ + entry.totalTokens,
               !.cost = @ + entry.cost,
               !.models = SetAddAll(@, entry.models, 1),
               !.hasBreakdowns = @ \/ entry.modelBreakdowns.defined,
               !.modelMap =
                 IF entry.modelBreakdowns.defined
                 THEN MergeBucketBreakdowns(@, entry.modelBreakdowns.list, 1)
                 ELSE @]]

RECURSIVE MergeLoop(_, _, _, _)
\* for (const entries of entriesArrays) for (const entry of entries)
MergeLoop(entriesArrays, a, i, map) ==
  IF a > Len(entriesArrays) THEN map
  ELSE IF i > Len(entriesArrays[a]) THEN MergeLoop(entriesArrays, a + 1, 1, map)
  ELSE MergeLoop(entriesArrays, a, i + 1, MergeAccumulate(map, entriesArrays[a][i]))

MergeBucketEntry(b) ==
  [label |-> b.key,
   inputTokens |-> b.inputTokens,
   outputTokens |-> b.outputTokens,
   cacheCreationTokens |-> b.cacheCreationTokens,
   cacheReadTokens |-> b.cacheReadTokens,
   totalTokens |-> b.totalTokens,
   cost |-> b.cost,
   models |-> b.models,
   modelBreakdowns |-> IF b.hasBreakdowns THEN Breakdowns(b.modelMap) ELSE NoBreakdowns]

\* the mutant of mergeNormalizedEntries that leaves the buckets in insertion order
mergeNormalizedEntriesUnsorted(entriesArrays) ==
  IF Len(entriesArrays) = 0 THEN <<>>
  ELSE IF Len(entriesArrays) = 1 THEN entriesArrays[1]
  ELSE LET map == MergeLoop(entriesArrays, 1, 1, <<>>) IN
       [i \in 1..Len(map) |-> MergeBucketEntry(map[i])]

\* the mutant of mergeNormalizedEntries that groups a single array as well
mergeNormalizedEntriesGroupOne(entriesArrays) ==
  IF Len(entriesArrays) = 0 THEN <<>>
  ELSE LET sorted == SortByKey(MergeLoop(entriesArrays, 1, 1, <<>>), 1, <<>>) IN
       [i \in 1..Len(sorted) |-> MergeBucketEntry(sorted[i])]

\* merge.ts 9-85
mergeNormalizedEntries(entriesArrays) ==
  IF Len(entriesArrays) = 0 THEN <<>>
  ELSE IF Len(entriesArrays) = 1 THEN entriesArrays[1]
  ELSE LET sorted == SortByKey(MergeLoop(entriesArrays, 1, 1, <<>>), 1, <<>>) IN
       [i \in 1..Len(sorted) |-> MergeBucketEntry(sorted[i])]

(***************************************************************************)
(* The aggregation operations on bounded inputs: up to MaxEntries entries  *)
(* of EntryPool, as no array, one array, or two or three arrays split at   *)
(* any points.                                                             *)
(***************************************************************************)
Breakdown(modelName, n) ==
  [modelName |-> modelName, inputTokens |-> n, outputTokens |-> n + 1,
   cacheCreationTokens |-> n + 2, cacheReadTokens |-> n + 3, cost |-> n + 4]

Entry(label, n, models, modelBreakdowns) ==
  [label |-> label, inputTokens |-> n, outputTokens |-> 2 * n,
   cacheCreationTokens |-> n + 1, cacheReadTokens |-> n + 2,
   totalTokens |-> 5 * n + 3, cost |-> 3 * n,
   models |-> models, modelBreakdowns |-> modelBreakdowns]

EntryPool ==
  {Entry("a", 1, <<"m1">>, NoBreakdowns),
   Entry("a", 2, <<"m1", "m2">>, Breakdowns(<<Breakdown("m1", 1), Breakdown("m2", 2)>>)),
   Entry("a", 3, <<"m2">>, Breakdowns(<<Breakdown("m1", 3)>>)),
   Entry("B", 1, <<"m1">>, NoBreakdowns),
   Entry("B", 4, <<>>, Breakdowns(<<>>)),
   Entry("2025-07-01", 2, <<"m2", "m1">>, Breakdowns(<<Breakdown("m2", 2), Breakdown("m2", 1)>>)),
   Entry("2025-07-02", 3, <<"m2">>, Breakdowns(<<Breakdown("m1", 3)>>)),
   Entry("2025-07-02", 1, <<"m3">>, NoBreakdowns)}

KeyFns == {"label", "labelOrNull", "month"}

EntryLists == UNION {[1..m -> EntryPool] : m \in 0..MaxEntries}

InitAgg ==
  /\ \E flat \in EntryLists :
       \/ arrays = <<flat>>
       \/ \E cut \in 0..Len(flat) :
            arrays = <<SubSeq(flat, 1, cut), SubSeq(flat, cut + 1, Len(flat))>>
       \/ \E cut1 \in 0..Len(flat) : \E cut2 \in cut1..Len(flat) :
            arrays = <<SubSeq(flat, 1, cut1), SubSeq(flat, cut1 + 1, cut2),
                       SubSeq(flat, cut2 + 1, Len(flat))>>
       \/ flat = <<>> /\ arrays = <<>>
  /\ keyFnUsed = ""
  /\ out = <<>>
  /\ gpc = "idle"
  /\ CodecIdle
  /\ ShareIdle
  /\ ParseIdle
  /\ NormIdle
  /\ StatIdle
  /\ PriceIdle
  /\ CliIdle
  /\ FrameIdle
  /\ StoreIdle
  /\ ButtonIdle
  /\ TabIdle

\* groupEntries(entries, keyFn) on a single array
GroupEntries ==
  /\ gpc = "idle"
  /\ Len(arrays) = 1
  /\ \E k \in KeyFns :
       /\ keyFnUsed' = k
       /\ out' = groupEntries(arrays[1], k)
  /\ gpc' = "grouped"
  /\ UNCHANGED arrays
  /\ UNCHANGED <<codecVars, shareVars, parseVars, normVars, statVars, priceVars, cliVars, frameVars, storeVars, buttonVars, tabVars>>

\* mergeNormalizedEntries(entriesArrays)
MergeNormalizedEntries ==
  /\ gpc = "idle"
  /\ out' = mergeNormalizedEntries(arrays)
  /\ gpc' = "merged"
  /\ UNCHANGED <<arrays, keyFnUsed>>
  /\ UNCHANGED <<codecVars, shareVars, parseVars, normVars, statVars, priceVars, cliVars, frameVars, storeVars, buttonVars, tabVars>>

NextAgg == GroupEntries \/ MergeNormalizedEntries

SpecAgg == InitAgg /\ [][NextAgg]_vars

(***************************************************************************)
(* C7 - C10: what the claims say of a finished grouping or merge.          *)
(***************************************************************************)
RECURSIVE SumField(_, _, _)
\* the sum of field f over seq[i..]
SumField(seq, f, i) ==
  IF i > Len(seq) THEN 0 ELSE seq[i][f] + SumField(seq, f, i + 1)

Range(seq) == {seq[i] : i \in DOMAIN seq}
LabelsOf(entries) == {entries[i].label : i \in DOMAIN entries}
NoRepeat(seq) == \A i, j \in DOMAIN seq : i # j => seq[i] # seq[j]
NumericFields == Range(NUMERIC_KEYS)
BreakdownFields == Range(MB_NUMERIC_KEYS)

\* the grouping that produced out: a finished groupEntries, or a finished
\* mergeNormalizedEntries of two arrays
Grouped == gpc = "grouped" \/ (gpc = "merged" /\ Len(arrays) >= 2)
RECURSIVE Flatten(_, _)
\* the concatenation of seqs[i..]
Flatten(seqs, i) == IF i > Len(seqs) THEN <<>> ELSE seqs[i] \o Flatten(seqs, i + 1)
GroupedInput == IF gpc = "grouped" THEN arrays[1] ELSE Flatten(arrays, 1)
GroupedKeyFn == IF gpc = "grouped" THEN keyFnUsed ELSE "label"
MembersOf(label) ==
  SelectSeq(GroupedInput, LAMBDA e : KeyOf(GroupedKeyFn, e) = Key(label))
Keyed == SelectSeq(GroupedInput, LAMBDA e : ~KeyOf(GroupedKeyFn, e).isNull)

Merged2 == gpc = "merged" /\ Len(arrays) = 2
DisjointLabels == LabelsOf(arrays[1]) \cap LabelsOf(arrays[2]) = {}
AscendingBy(Cmp(_, _), entries) ==
  \A i \in 1..(Len(entries) - 1) : Cmp(entries[i].label, entries[i + 1].label) < 0

\* C7 as stated: two arrays whose label sets are disjoint from each other
\* merge into |A| + |B| entries, ascending by label.
C7_DisjointMergeLength ==
  (Merged2 /\ DisjointLabels) =>
    /\ Len(out) = Len(arrays[1]) + Len(arrays[2])
    /\ AscendingBy(localeCompare, out)

\* C7 amended: two arrays whose label sets are disjoint from each other and
\* whose labels do not repeat within either array merge into |A| + |B|
\* entries, ascending by label in localeCompare's order.
C7_DistinctDisjointMergeLength ==
  (Merged2 /\ DisjointLabels /\ NoRepeat([i \in DOMAIN GroupedInput |-> GroupedInput[i].label])) =>
    /\ Len(out) = Len(arrays[1]) + Len(arrays[2])
    /\ AscendingBy(localeCompare, out)
    /\ LabelsOf(out) = LabelsOf(arrays[1]) \cup LabelsOf(arrays[2])

\* two non-empty arrays with three distinct labels between them were merged
C7_Witness ==
  /\ Merged2 /\ DisjointLabels
  /\ arrays[1] # <<>> /\ arrays[2] # <<>>
  /\ Cardinality(LabelsOf(GroupedInput)) = 3
  /\ Len(out) = 3

\* C8: each group's six numeric fields are the sums over the entries whose
\* key is the group's label, and its models are the union of theirs, none
\* twice; for groupEntries and for mergeNormalizedEntries of two arrays.
C8_GroupSumsAndModels ==
  Grouped =>
    \A g \in DOMAIN out :
      LET members == MembersOf(out[g].label) IN
      /\ \A f \in NumericFields : out[g][f] = SumField(members, f, 1)
      /\ Range(out[g].models) = UNION {Range(members[i].models) : i \in DOMAIN members}
      /\ NoRepeat(out[g].models)

\* a merged group with two members that share a model
C8_Witness ==
  /\ Merged2
  /\ \E g \in DOMAIN out :
       LET members == MembersOf(out[g].label) IN
       /\ Len(members) >= 2
       /\ Range(members[1].models) \cap Range(members[2].models) # {}
       /\ out[g].cost > members[1].cost

\* every breakdown record of the members of a group, in order
RECURSIVE RecordsOf(_, _)
RecordsOf(members, i) ==
  IF i > Len(members) THEN <<>>
  ELSE members[i].modelBreakdowns.list \o RecordsOf(members, i + 1)

\* C9: a group of groupEntries has no modelBreakdowns exactly when no member
\* has the field; otherwise it has one record per distinct model name of the
\* members' records, each the sum of the same-named records, and nothing else.
C9_BreakdownsPresence ==
  (gpc = "grouped") =>
    \A g \in DOMAIN out :
      LET members == MembersOf(out[g].label)
          records == RecordsOf(members, 1)
          mbs == out[g].modelBreakdowns IN
      /\ mbs.defined <=> \E i \in DOMAIN members : members[i].modelBreakdowns.defined
      /\ ~mbs.defined => mbs.list = <<>>
      /\ {mbs.list[i].modelName : i \in DOMAIN mbs.list}
           = {records[i].modelName : i \in DOMAIN records}
      /\ NoRepeat([i \in DOMAIN mbs.list |-> mbs.list[i].modelName])
      /\ \A i \in DOMAIN mbs.list : \A f \in BreakdownFields :
           mbs.list[i][f]
             = SumField(SelectSeq(records,
                          LAMBDA r : r.modelName = mbs.list[i].modelName), f, 1)

\* a group with a member without breakdowns and members whose same-named
\* records were summed
C9_Witness ==
  /\ gpc = "grouped"
  /\ \E g \in DOMAIN out :
       LET members == MembersOf(out[g].label) IN
       /\ \E i \in DOMAIN members : ~members[i].modelBreakdowns.defined
       /\ out[g].modelBreakdowns.defined
       /\ Len(RecordsOf(members, 1)) > Len(out[g].modelBreakdowns.list)

GroupKeys == {KeyOf(GroupedKeyFn, Keyed[i]).str : i \in DOMAIN Keyed}

OnePerKey ==
  /\ Len(out) = Cardinality(GroupKeys)
  /\ LabelsOf(out) = GroupKeys
  /\ \A f \in NumericFields : SumField(out, f, 1) = SumField(Keyed, f, 1)

\* C10 as stated: one entry per distinct non-null key, entries with a null
\* key in no group, and the result ascending by key in the
\* locale-independent (code unit) order.
C10_SortedCodeUnits ==
  (gpc = "grouped") => OnePerKey /\ AscendingBy(codeUnitCompare, out)

\* C10 amended: the same, the result ascending by key in the order of
\* String.prototype.localeCompare.
C10_SortedLocaleCompare ==
  (gpc = "grouped") => OnePerKey /\ AscendingBy(localeCompare, out)

\* entries with a null key were left out and two groups came out in order
C10_Witness ==
  /\ gpc = "grouped" /\ keyFnUsed = "labelOrNull"
  /\ Len(Keyed) < Len(GroupedInput)
  /\ Len(out) = 2
  /\ Len(Keyed) = 2

(***************************************************************************)
(* normalize.ts: aggregateToMonthly, as it is (109-114, over groupEntries) *)
(* and in the file's earlier variant with its own accumulation (261-333).  *)
(* keyFnUsed records the variant, "month" or "monthInline".                *)
(***************************************************************************)
aggregateToMonthly(dailyEntries) == groupEntries(dailyEntries, "month")

RECURSIVE InlineLoop(_, _, _)
\* normalize.ts 276-318: the accumulation of merge.ts under the month key
InlineLoop(dailyEntries, i, map) ==
  IF i > Len(dailyEntries) THEN map
  ELSE LET key == KeyOf("month", dailyEntries[i]) IN
       InlineLoop(dailyEntries, i + 1,
                  IF key.isNull THEN map
                  ELSE MergeAccumulate(map, [dailyEntries[i] EXCEPT !.label = key.str]))

\* normalize.ts 320-332: modelBreakdowns is always an array
aggregateToMonthlyInline(dailyEntries) ==
  LET sorted == SortByKey(InlineLoop(dailyEntries, 1, <<>>), 1, <<>>) IN
  [i \in 1..Len(sorted) |->
     [MergeBucketEntry(sorted[i]) EXCEPT !.modelBreakdowns = Breakdowns(sorted[i].modelMap)]]

MonthlyVariants == {"month", "monthInline"}
Monthly(variant, entries) ==
  IF variant = "month" THEN aggregateToMonthly(entries)
  ELSE aggregateToMonthlyInline(entries)

MonthlyPool ==
  {Entry("2025-07-01", 2, <<"m2", "m1">>, Breakdowns(<<Breakdown("m2", 2), Breakdown("m2", 1)>>)),
   Entry("2025-07-02", 3, <<"m2">>, Breakdowns(<<Breakdown("m1", 3)>>)),
   Entry("2025-07", 1, <<"m1">>, NoBreakdowns),
   Entry("2025-06", 4, <<"m3", "m3">>, Breakdowns(<<Breakdown("m3", 4), Breakdown("m3", 1)>>)),
   Entry("2025-07-1", 1, <<"m1">>, NoBreakdowns),
   Entry("2025/07/01", 2, <<"m2">>, Breakdowns(<<>>)),
   Entry("a", 1, <<"m1">>, NoBreakdowns)}

InitMonthly ==
  /\ \E flat \in UNION {[1..m -> MonthlyPool] : m \in 0..MaxEntries} : arrays = <<flat>>
  /\ keyFnUsed = ""
  /\ out = <<>>
  /\ gpc = "idle"
  /\ CodecIdle
  /\ ShareIdle
  /\ ParseIdle
  /\ NormIdle
  /\ StatIdle
  /\ PriceIdle
  /\ CliIdle
  /\ FrameIdle
  /\ StoreIdle
  /\ ButtonIdle
  /\ TabIdle

\* aggregateToMonthly(dailyEntries)
AggregateToMonthly ==
  /\ gpc = "idle"
  /\ \E variant \in MonthlyVariants :
       /\ keyFnUsed' = variant
       /\ out' = Monthly(variant, arrays[1])
  /\ gpc' = "monthly"
  /\ UNCHANGED arrays
  /\ UNCHANGED <<codecVars, shareVars, parseVars, normVars, statVars, priceVars, cliVars, frameVars, storeVars, buttonVars, tabVars>>

\* aggregateToMonthly applied to its own result
AggregateAgain ==
  /\ gpc = "monthly"
  /\ arrays' = <<out>>
  /\ out' = Monthly(keyFnUsed, out)
  /\ gpc' = "monthlyAgain"
  /\ UNCHANGED keyFnUsed
  /\ UNCHANGED <<codecVars, shareVars, parseVars, normVars, statVars, priceVars, cliVars, frameVars, storeVars, buttonVars, tabVars>>

NextMonthly == AggregateToMonthly \/ AggregateAgain

SpecMonthly == InitMonthly /\ [][NextMonthly]_vars

\* the first seven characters of the label are a month, YYYY-MM
HasMonthPrefix(e) == IsMonthText(SlicePrefix(e.label, 7))

\* out holds one group per month of the entries that In(e) admits, each with
\* the sums of exactly those entries, ascending by month
MonthGroupsOf(In(_)) ==
  LET admitted == SelectSeq(arrays[1], In)
      months == {SlicePrefix(admitted[i].label, 7) : i \in DOMAIN admitted} IN
  /\ LabelsOf(out) = months
  /\ Len(out) = Cardinality(months)
  /\ \A g \in DOMAIN out : \A f \in NumericFields :
       out[g][f] = SumField(SelectSeq(admitted,
                              LAMBDA e : SlicePrefix(e.label, 7) = out[g].label), f, 1)
  /\ AscendingBy(localeCompare, out)
  /\ AscendingBy(codeUnitCompare, out)

\* C12 as stated: aggregateToMonthly puts an entry in the group of the first
\* seven characters of its label exactly when the whole label is a date
\* YYYY-MM-DD; every other entry is in no group; the result is ascending by
\* month.
C12_MonthOfDateLabels ==
  (gpc = "monthly") => MonthGroupsOf(LAMBDA e : IsDateText(e.label))

\* C12 amended: an entry is in the group of the first seven characters of its
\* label exactly when those seven characters are a month YYYY-MM, whatever
\* follows them; every other entry is in no group; the result is ascending
\* by month.
C12_MonthOfMonthPrefix ==
  (gpc = "monthly") => MonthGroupsOf(HasMonthPrefix)

\* a day, a month label and two labels that are left out were aggregated
\* into one month
C12_Witness ==
  /\ gpc = "monthly"
  /\ \E i \in DOMAIN arrays[1] : IsDateText(arrays[1][i].label)
  /\ \E i \in DOMAIN arrays[1] :
       HasMonthPrefix(arrays[1][i]) /\ ~IsDateText(arrays[1][i].label)
  /\ \E i \in DOMAIN arrays[1] : ~HasMonthPrefix(arrays[1][i])
  /\ Len(out) = 1

\* the sum of field f over the records of one model in a breakdown list
ModelSum(list, modelName, f) ==
  SumField(SelectSeq(list, LAMBDA r : r.modelName = modelName), f, 1)

\* entry b carries what entry a carries: label, numeric fields, model set and
\* the values of every model's breakdown
SameContent(a, b) ==
  /\ a.label = b.label
  /\ \A f \in NumericFields : a[f] = b[f]
  /\ Range(a.models) = Range(b.models)
  /\ \A name \in {r.modelName : r \in Range(a.modelBreakdowns.list)}
                  \cup {r.modelName : r \in Range(b.modelBreakdowns.list)} :
       \A f \in BreakdownFields :
         ModelSum(a.modelBreakdowns.list, name, f) = ModelSum(b.modelBreakdowns.list, name, f)

\* C13: aggregateToMonthly of entries whose labels are distinct months
\* YYYY-MM returns entries with the same labels, numeric fields, model sets
\* and per-model breakdown values, and aggregateToMonthly applied to its own
\* result returns that result.
C13_MonthlyNoOp ==
  /\ (/\ gpc \in {"monthly", "monthlyAgain"}
      /\ \A i \in DOMAIN arrays[1] : IsMonthText(arrays[1][i].label)
      /\ NoRepeat([i \in DOMAIN arrays[1] |-> arrays[1][i].label])) =>
       /\ Len(out) = Len(arrays[1])
       /\ \A i \in DOMAIN arrays[1] : \E g \in DOMAIN out : SameContent(arrays[1][i], out[g])
  /\ (gpc = "monthlyAgain") => out = arrays[1]

\* a result of two months, one with the summed breakdowns of two days, was
\* aggregated again
C13_Witness ==
  /\ gpc = "monthlyAgain"
  /\ Len(arrays[1]) = 2 /\ Len(out) = 2
  /\ \E g \in DOMAIN out :
       /\ Len(out[g].modelBreakdowns.list) = 2
       /\ out[g].inputTokens = 5

\* C11: mergeNormalizedEntries returns the empty list for no array, the one
\* array as it is (neither regrouped nor re-sorted) for one array, and for
\* two or more arrays what groupEntries returns for their concatenation
\* keyed by the label.
C11_MergeIsGroupByLabel ==
  (gpc = "merged") =>
    /\ Len(arrays) = 0 => out = <<>>
    /\ Len(arrays) = 1 => out = arrays[1]
    /\ Len(arrays) >= 2 => out = groupEntries(Flatten(arrays, 1), "label")

\* three arrays were merged, a label of the first repeated in the third, with
\* breakdowns on both sides, and the groups came out in another order than
\* the entries went in
C11_Witness ==
  /\ gpc = "merged" /\ Len(arrays) = 3
  /\ \A a \in 1..3 : Len(arrays[a]) = 1
  /\ arrays[1][1].label = arrays[3][1].label
  /\ arrays[1][1].modelBreakdowns.defined /\ arrays[3][1].modelBreakdowns.defined
  /\ localeCompare(arrays[2][1].label, arrays[1][1].label) < 0
  /\ Len(out) = 2

(***************************************************************************)
(* App.tsx: buildHashPayload and restoreFromHash.  An input is a label and *)
(* a content text.  A restored input carries its label as a JSON value and *)
(* its content as [undef, str], since JSON.stringify(undefined) is         *)
(* undefined.                                                              *)
(***************************************************************************)
MaxShared == 3

SourceInput(label, content) == [label |-> label, content |-> content]

RECURSIVE TrimEnd(_)
TrimEnd(ts) ==
  IF ts # <<>> /\ ts[Len(ts)].k = "ws" THEN TrimEnd(SubSeq(ts, 1, Len(ts) - 1)) ELSE ts

\* String.prototype.trim
trim(ts) == TrimEnd(SubSeq(ts, SkipWs(ts, 1), Len(ts)))

buildHashPayload(inputs) ==
  LET nonEmpty == SelectSeq(inputs, LAMBDA inp : trim(inp.content) # <<>>)
      hasAnyLabel == \E i \in DOMAIN nonEmpty : nonEmpty[i].label # ""
      data == [i \in DOMAIN nonEmpty |-> JSONparse(nonEmpty[i].content)] IN
  IF Len(nonEmpty) = 0 THEN [threw |-> FALSE, val |-> NullStr]
  ELSE IF Len(nonEmpty) = 1 /\ ~hasAnyLabel
       THEN [threw |-> FALSE, val |-> Str(nonEmpty[1].content)]
  ELSE IF \E i \in DOMAIN data : ~data[i].ok THEN [threw |-> TRUE, val |-> NullStr]
  ELSE IF hasAnyLabel
       THEN [threw |-> FALSE,
             val |-> Str(JSONstringify(JObj(<<"sources">>,
                       <<JArr([i \in DOMAIN nonEmpty |->
                                 JObj(<<"label", "data">>,
                                      <<JStr(nonEmpty[i].label), data[i].v>>)])>>)))]
  ELSE [threw |-> FALSE,
        val |-> Str(JSONstringify(JArr([i \in DOMAIN nonEmpty |-> data[i].v])))]

REPORT_KEYS == {"daily", "weekly", "monthly", "sessions", "blocks"}

Nullish(v) == v.t \in {"undefined", "null"}

\* JSON.stringify(v, null, 2) as the content of a restored input
RestoredContent(v) ==
  IF v.t = "undefined" THEN [undef |-> TRUE, str |-> <<>>]
  ELSE [undef |-> FALSE, str |-> JSONstringifyPretty(v)]

RestoredList(list) == [isNull |-> FALSE, list |-> list]

\* the mutant of restoreFromHash that knows the legacy format only
restoreFromHashLegacyOnly(json) ==
  LET r == JSONparse(json) IN
  IF ~r.ok THEN NoInputs
  ELSE RestoredList(<<[label |-> JStr(""), content |-> RestoredContent(r.v)]>>)

restoreFromHash(json) ==
  LET r == JSONparse(json)
      parsed == r.v IN
  IF ~r.ok THEN NoInputs
  ELSE IF parsed.t = "obj" /\ HasKey(parsed, "sources")
  THEN LET sources == Get(parsed, "sources") IN
       \* sources.map of a non-array, s.label of null: a TypeError, caught
       IF sources.t # "arr" \/ \E i \in DOMAIN sources.el : sources.el[i].t = "null"
       THEN NoInputs
       ELSE RestoredList([i \in DOMAIN sources.el |->
              [label |-> IF Nullish(Get(sources.el[i], "label")) THEN JStr("")
                         ELSE Get(sources.el[i], "label"),
               content |-> RestoredContent(Get(sources.el[i], "data"))]])
  ELSE IF /\ parsed.t = "arr" /\ Len(parsed.el) > 0
          /\ parsed.el[1].t \in {"obj", "arr"}
          /\ \E i \in DOMAIN parsed.el[1].keys : parsed.el[1].keys[i] \in REPORT_KEYS
  THEN RestoredList([i \in DOMAIN parsed.el |->
         [label |-> JStr(""), content |-> RestoredContent(parsed.el[i])]])
  ELSE RestoredList(<<[label |-> JStr(""), content |-> RestoredContent(parsed)]>>)

(***************************************************************************)
(* Sharing on bounded inputs: up to MaxShared inputs, each a label and one *)
(* of the contents below.                                                  *)
(***************************************************************************)
EmptyReport(kind) == JObj(<<kind, "totals">>, <<JArr(<<>>), JObj(<<>>, <<>>)>>)

ShareContents ==
  {<<WS>>, <<Tok("{")>>, <<Tok("["), Tok("]")>>,
   JSONstringifyPretty(EmptyReport("daily")),
   <<WS>> \o JSONstringify(EmptyReport("weekly")) \o <<WS>>,
   JSONstringify(JObj(<<"sources">>,
     <<JArr(<<JObj(<<"label", "data">>, <<JStr("X"), JNum(1)>>)>>)>>)),
   JSONstringify(JArr(<<EmptyReport("daily"), EmptyReport("weekly")>>)),
   <<Tok("{"), StrTok("daily"), Tok(":"), HugeTok, Tok("}")>>}

ShareLabels == {"", "L"}

ShareInputs == {SourceInput(l, c) : l \in ShareLabels, c \in ShareContents}

InitShare ==
  /\ shared \in UNION {[1..m -> ShareInputs] : m \in 0..MaxShared}
  /\ payload = [threw |-> FALSE, val |-> NullStr]
  /\ restored = NoInputs
  /\ spc = "start"
  /\ CodecIdle
  /\ AggIdle
  /\ ParseIdle
  /\ NormIdle
  /\ StatIdle
  /\ PriceIdle
  /\ CliIdle
  /\ FrameIdle
  /\ StoreIdle
  /\ ButtonIdle
  /\ TabIdle

BuildHashPayload ==
  /\ spc = "start"
  /\ payload' = buildHashPayload(shared)
  /\ spc' = "built"
  /\ UNCHANGED <<shared, restored>>
  /\ UNCHANGED <<codecVars, aggVars, parseVars, normVars, statVars, priceVars, cliVars, frameVars, storeVars, buttonVars, tabVars>>

RestoreFromHash ==
  /\ spc = "built"
  /\ ~payload.threw /\ ~payload.val.isNull
  /\ restored' = restoreFromHash(payload.val.str)
  /\ spc' = "restored"
  /\ UNCHANGED <<shared, payload>>
  /\ UNCHANGED <<codecVars, aggVars, parseVars, normVars, statVars, priceVars, cliVars, frameVars, storeVars, buttonVars, tabVars>>

NextShare == BuildHashPayload \/ RestoreFromHash

SpecShare == InitShare /\ [][NextShare]_vars

(***************************************************************************)
(* C2.                                                                     *)
(***************************************************************************)
NonBlank == SelectSeq(shared, LAMBDA inp : trim(inp.content) # <<>>)
AllValid == \A i \in DOMAIN NonBlank : JSONparse(NonBlank[i].content).ok
SharedValue(i) == JSONparse(NonBlank[i].content).v

\* the restored inputs are the non-blank inputs: as many, in order, each with
\* its label and a content that parses to the value of the original content
RoundTrip ==
  /\ ~restored.isNull
  /\ Len(restored.list) = Len(NonBlank)
  /\ \A i \in DOMAIN NonBlank :
       /\ restored.list[i].label = JStr(NonBlank[i].label)
       /\ ~restored.list[i].content.undef
       /\ JSONparse(restored.list[i].content.str).ok
       /\ JSONparse(restored.list[i].content.str).v = SharedValue(i)

HasReportKey(v) == v.t = "obj" /\ \E k \in REPORT_KEYS : HasKey(v, k)

\* what restoreFromHash takes the payload of these inputs for is what
\* buildHashPayload made it as
Restorable ==
  \/ \E i \in DOMAIN NonBlank : NonBlank[i].label # ""
  \/ /\ Len(NonBlank) = 1
     /\ ~HasKey(SharedValue(1), "sources")
     /\ ~(/\ SharedValue(1).t = "arr" /\ SharedValue(1).el # <<>>
          /\ HasReportKey(SharedValue(1).el[1]))
  \/ Len(NonBlank) >= 2 /\ HasReportKey(SharedValue(1))

Returned(v) == [threw |-> FALSE, msg |-> "", val |-> v]
Thrown(msg) == [threw |-> TRUE, msg |-> msg, val |-> JUndefined]

isObj(v) == v.t = "obj"

\* the dates new Date() reads here, formatted as the local date of a host on UTC
parseEnglishDate(dateStr) ==
  CASE dateStr = "Jul 1, 2025" -> "2025-07-01"
    [] dateStr = "Jul 2, 2025" -> "2025-07-02"
    [] OTHER -> dateStr

\* "costUSD" in first throws a TypeError when first is not an object
isCodexDaily(data) ==
  LET daily == Get(data, "daily") IN
  IF daily.t # "arr" \/ daily.el = <<>> THEN Returned(FALSE)
  ELSE IF daily.el[1].t \notin {"obj", "arr"} THEN Thrown("TypeError")
  ELSE Returned(HasKey(daily.el[1], "costUSD") /\ ~HasKey(daily.el[1], "totalCost"))

\* v ?? 0
OrZero(v) == IF Nullish(v) THEN JNum(0) ELSE v

\* entry.models of a null entry is a TypeError, and so is m.inputTokens of a
\* null value of the models mapping
EntryThrows(entry) ==
  \/ Nullish(entry)
  \/ /\ isObj(Get(entry, "models"))
     /\ \E i \in DOMAIN Get(entry, "models").el : Nullish(Get(entry, "models").el[i])

adaptCodexEntry(entry) ==
  LET models == IF isObj(Get(entry, "models")) THEN Get(entry, "models") ELSE JObj(<<>>, <<>>)
      modelsUsed == JArr([i \in DOMAIN models.keys |-> JStr(models.keys[i])])
      modelBreakdowns ==
        JArr([i \in DOMAIN models.keys |->
          JObj(<<"modelName", "inputTokens", "outputTokens", "cacheCreationTokens",
                 "cacheReadTokens", "cost">>,
               <<JStr(models.keys[i]),
                 OrZero(Get(models.el[i], "inputTokens")),
                 OrZero(Get(models.el[i], "outputTokens")),
                 JNum(0),
                 OrZero(Get(models.el[i], "cachedInputTokens")),
                 JNum(0)>>)])
      date == Get(entry, "date") IN
  JObj(<<"date", "inputTokens", "outputTokens", "cacheCreationTokens",
         "cacheReadTokens", "totalTokens", "totalCost", "modelsUsed", "modelBreakdowns">>,
       <<IF date.t = "str" THEN JStr(parseEnglishDate(date.s)) ELSE date,
         OrZero(Get(entry, "inputTokens")),
         OrZero(Get(entry, "outputTokens")),
         JNum(0),
         OrZero(Get(entry, "cachedInputTokens")),
         OrZero(Get(entry, "totalTokens")),
         OrZero(Get(entry, "costUSD")),
         modelsUsed, modelBreakdowns>>)

adaptCodexTotals(totals) ==
  JObj(<<"inputTokens", "outputTokens", "cacheCreationTokens", "cacheReadTokens",
         "totalTokens", "totalCost">>,
       <<OrZero(Get(totals, "inputTokens")),
         OrZero(Get(totals, "outputTokens")),
         JNum(0),
         OrZero(Get(totals, "cachedInputTokens")),
         OrZero(Get(totals, "totalTokens")),
         OrZero(Get(totals, "costUSD"))>>)

adaptReport(data) ==
  IF ~isObj(data) THEN Returned(data)
  ELSE LET codex == isCodexDaily(data) IN
  IF codex.threw THEN Thrown(codex.msg)
  ELSE IF ~codex.val THEN Returned(data)
  ELSE LET entries == Get(data, "daily").el
           totals == Get(data, "totals") IN
       IF \E i \in DOMAIN entries : EntryThrows(entries[i]) THEN Thrown("TypeError")
       ELSE Returned(
              SetKey(SetKey(data, "daily",
                            JArr([i \in DOMAIN entries |-> adaptCodexEntry(entries[i])])),
                     "totals",
                     IF isObj(totals) THEN adaptCodexTotals(totals) ELSE totals))

NotAnObject == "Invalid JSON: expected an object"
Unrecognized ==
  "Unrecognized report format. Expected one of: daily, weekly, monthly, sessions, blocks"

\* the top-level keys in the order detectReportType tries them
DETECT_KEYS == <<"daily", "weekly", "monthly", "sessions", "blocks">>
TypeOfKey(k) == IF k = "sessions" THEN "session" ELSE k

\* the mutant of detectReportType that takes a report key of any value
detectReportTypeByKeyOnly(data) ==
  IF data.t \notin {"obj", "arr"} THEN Thrown(NotAnObject)
  ELSE LET found == SelectSeq(DETECT_KEYS, LAMBDA k : HasKey(data, k)) IN
       IF found = <<>> THEN Thrown(Unrecognized)
       ELSE Returned(SetKey(data, "type", JStr(TypeOfKey(found[1]))))

detectReportType(data) ==
  IF data.t \notin {"obj", "arr"} THEN Thrown(NotAnObject)
  ELSE LET found == SelectSeq(DETECT_KEYS,
                              LAMBDA k : HasKey(data, k) /\ Get(data, k).t = "arr") IN
       IF found = <<>> THEN Thrown(Unrecognized)
       ELSE Returned(SetKey(data, "type", JStr(TypeOfKey(found[1]))))

\* an array of model names as a list of strings
ToModels(v) == [i \in DOMAIN v.el |-> v.el[i].s]

\* an optional ModelBreakdown[] as [defined, list]
ToBreakdowns(v) ==
  IF Nullish(v) THEN NoBreakdowns
  ELSE Breakdowns([i \in DOMAIN v.el |->
         [modelName |-> Get(v.el[i], "modelName").s,
          inputTokens |-> Get(v.el[i], "inputTokens").n,
          outputTokens |-> Get(v.el[i], "outputTokens").n,
          cacheCreationTokens |-> Get(v.el[i], "cacheCreationTokens").n,
          cacheReadTokens |-> Get(v.el[i], "cacheReadTokens").n,
          cost |-> Get(v.el[i], "cost").n]])

\* the NormalizedEntry of a daily, weekly, monthly or session entry
UsageEntry(label, e) ==
  [label |-> label,
   inputTokens |-> Get(e, "inputTokens").n,
   outputTokens |-> Get(e, "outputTokens").n,
   cacheCreationTokens |-> Get(e, "cacheCreationTokens").n,
   cacheReadTokens |-> Get(e, "cacheReadTokens").n,
   totalTokens |-> Get(e, "totalTokens").n,
   cost |-> Get(e, "totalCost").n,
   models |-> ToModels(Get(e, "modelsUsed")),
   modelBreakdowns |-> ToBreakdowns(Get(e, "modelBreakdowns"))]

\* e.date ?? ""
LabelOrEmpty(v) == IF Nullish(v) THEN "" ELSE v.s

\* new Date(s).getTime(), in days: NaN for a text that is no date
GetTime(s) ==
  CASE s = "2025-07-01" -> [nan |-> FALSE, t |-> 1]
    [] s = "2025-07-02" -> [nan |-> FALSE, t |-> 2]
    [] OTHER -> [nan |-> TRUE, t |-> 0]

\* the comparator of the session sort; a NaN result counts as 0
ByLastActivity(a, b) ==
  LET ta == GetTime(Get(a, "lastActivity").s)
      tb == GetTime(Get(b, "lastActivity").s) IN
  IF ta.nan \/ tb.nan THEN 0 ELSE ta.t - tb.t

RECURSIVE InsertByTimeBeforeTies(_, _, _)
\* the mutant of InsertByTime that puts a session before those of its time
InsertByTimeBeforeTies(sorted, e, i) ==
  IF i > Len(sorted) THEN Append(sorted, e)
  ELSE IF ByLastActivity(sorted[i], e) >= 0
       THEN SubSeq(sorted, 1, i - 1) \o <<e>> \o SubSeq(sorted, i, Len(sorted))
  ELSE InsertByTimeBeforeTies(sorted, e, i + 1)

RECURSIVE InsertByTime(_, _, _)
InsertByTime(sorted, e, i) ==
  IF i > Len(sorted) THEN Append(sorted, e)
  ELSE IF ByLastActivity(sorted[i], e) > 0
       THEN SubSeq(sorted, 1, i - 1) \o <<e>> \o SubSeq(sorted, i, Len(sorted))
  ELSE InsertByTime(sorted, e, i + 1)

RECURSIVE SortByTime(_, _, _)
SortByTime(sessions, i, sorted) ==
  IF i > Len(sessions) THEN sorted
  ELSE SortByTime(sessions, i + 1, InsertByTime(sorted, sessions[i], 1))

\* s.slice(-n)
SliceSuffix(s, n) ==
  LET cs == Chars(s) IN
  FromChars(SubSeq(cs, IF Len(cs) > n THEN Len(cs) - n + 1 ELSE 1, Len(cs)))

SessionLabel(e) ==
  LET projectPath == Get(e, "projectPath")
      project == IF projectPath # JStr("Unknown Project") THEN projectPath ELSE JStr("")
      shortId == SliceSuffix(Get(e, "sessionId").s, 20) IN
  IF Nullish(project) \/ project = JStr("") THEN shortId ELSE project.s

\* !v
Falsy(v) == Nullish(v) \/ v = JBool(FALSE) \/ v = JNum(0) \/ v = JStr("")

\* new Date(startTime).toLocaleString("en-US", ...) on a host on UTC
BlockLabel(startTime) ==
  CASE startTime = "2025-07-01T10:00:00.000Z" -> "Jul 1, 10:00 AM"
    [] startTime = "2025-07-01T15:00:00.000Z" -> "Jul 1, 03:00 PM"

BlockEntry(e) ==
  [label |-> BlockLabel(Get(e, "startTime").s),
   inputTokens |-> Get(Get(e, "tokenCounts"), "inputTokens").n,
   outputTokens |-> Get(Get(e, "tokenCounts"), "outputTokens").n,
   cacheCreationTokens |-> Get(Get(e, "tokenCounts"), "cacheCreationInputTokens").n,
   cacheReadTokens |-> Get(Get(e, "tokenCounts"), "cacheReadInputTokens").n,
   totalTokens |-> Get(e, "totalTokens").n,
   cost |-> Get(e, "costUSD").n,
   models |-> ToModels(Get(e, "models")),
   modelBreakdowns |-> NoBreakdowns]

\* the mutant of ActiveBlocks that keeps the gaps
ActiveBlocksAndGaps(report) == Get(report, "blocks").el

\* report.blocks.filter((e) => !e.isGap)
ActiveBlocks(report) ==
  SelectSeq(Get(report, "blocks").el, LAMBDA e : Falsy(Get(e, "isGap")))

\* a property read of a null element is a TypeError that nothing catches
normalizeEntries(report) ==
  LET type == Get(report, "type").s
      list == Get(report, IF type = "session" THEN "sessions" ELSE type).el IN
  IF \E i \in DOMAIN list : Nullish(list[i]) THEN Thrown("TypeError")
  ELSE CASE type = "daily" ->
              Returned([i \in DOMAIN list |->
                          UsageEntry(LabelOrEmpty(Get(list[i], "date")), list[i])])
         [] type = "weekly" ->
              Returned([i \in DOMAIN list |->
                          UsageEntry(LabelOrEmpty(Get(list[i], "week")), list[i])])
         [] type = "monthly" ->
              Returned([i \in DOMAIN list |->
                          UsageEntry(LabelOrEmpty(Get(list[i], "month")), list[i])])
         [] type = "session" ->
              LET sorted == SortByTime(list, 1, <<>>) IN
              Returned([i \in DOMAIN sorted |-> UsageEntry(SessionLabel(sorted[i]), sorted[i])])
         [] type = "blocks" ->
              LET active == ActiveBlocks(report) IN
              Returned([i \in DOMAIN active |-> BlockEntry(active[i])])

\* a property read of report.totals is a TypeError when the report has none
normalizeTotals(report) ==
  IF Get(report, "type").s = "blocks"
  THEN IF \E i \in DOMAIN Get(report, "blocks").el : Nullish(Get(report, "blocks").el[i])
       THEN Thrown("TypeError")
       ELSE LET active == ActiveBlocks(report) IN
            Returned(sumEntries([i \in DOMAIN active |-> BlockEntry(active[i])]))
  ELSE LET t == Get(report, "totals") IN
       IF Nullish(t) THEN Thrown("TypeError")
       ELSE Returned([inputTokens |-> Get(t, "inputTokens").n,
                      outputTokens |-> Get(t, "outputTokens").n,
                      cacheCreationTokens |-> Get(t, "cacheCreationTokens").n,
                      cacheReadTokens |-> Get(t, "cacheReadTokens").n,
                      totalTokens |-> Get(t, "totalTokens").n,
                      totalCost |-> Get(t, "totalCost").n])

computeTotalsFromEntries(entries) == sumEntries(entries)

(***************************************************************************)
(* App.tsx: parseInputs.  A source is a detected report and the label of   *)
(* the input it came from.  An error is [isNull, msg, pos, tok, types]: a  *)
(* syntax error carries the position and token JSON.parse names, a merge   *)
(* error the list of kinds its message ends with.                          *)
(***************************************************************************)
SyntaxError == "SyntaxError"
MergeError == "Cannot merge different report types: "

ErrorOf(msg) == [isNull |-> FALSE, msg |-> msg, pos |-> 0, tok |-> "", types |-> <<>>]
SyntaxErrorOf(r) ==
  [isNull |-> FALSE, msg |-> SyntaxError, pos |-> r.p, tok |-> r.tok, types |-> <<>>]

Collected(sources) == [failed |-> FALSE, error |-> NoError, sources |-> sources]
Failed(error) == [failed |-> TRUE, error |-> error, sources |-> <<>>]

\* detectReportType(adaptReport(item))
DetectAdapted(item) ==
  Only({IF adapted.threw THEN adapted ELSE detectReportType(adapted.val) :
        adapted \in {adaptReport(item)}})

RECURSIVE PushItemsLenient(_, _, _, _)
\* the mutant of PushItems that leaves out an item it cannot detect
PushItemsLenient(items, label, i, sources) ==
  IF i > Len(items) THEN Collected(sources)
  ELSE Only({PushItemsLenient(items, label, i + 1,
               IF d.threw THEN sources
               ELSE Append(sources, [report |-> d.val, label |-> label])) :
             d \in {DetectAdapted(items[i])}})

RECURSIVE PushItems(_, _, _, _)
\* App.tsx 40-54: push every item's report, or return the first error
PushItems(items, label, i, sources) ==
  IF i > Len(items) THEN Collected(sources)
  ELSE Only({IF d.threw THEN Failed(ErrorOf(d.msg))
             ELSE PushItems(items, label, i + 1,
                            Append(sources, [report |-> d.val, label |-> label])) :
             d \in {DetectAdapted(items[i])}})

RECURSIVE CollectSources(_, _, _)
\* App.tsx 28-55: the loop over the inputs
CollectSources(inputs, i, sources) ==
  IF i > Len(inputs) THEN Collected(sources)
  ELSE IF trim(inputs[i].content) = <<>> THEN CollectSources(inputs, i + 1, sources)
  ELSE Only({
         IF ~parsed.ok THEN Failed(SyntaxErrorOf(parsed))
         ELSE Only({IF pushed.failed THEN pushed
                    ELSE CollectSources(inputs, i + 1, pushed.sources) :
                    pushed \in {PushItems(IF parsed.v.t = "arr" THEN parsed.v.el
                                          ELSE <<parsed.v>>,
                                          inputs[i].label, 1, sources)}}) :
         parsed \in {JSONparse(trim(inputs[i].content))}})

TypesOf(sources) == [i \in DOMAIN sources |-> Get(sources[i].report, "type").s]

\* the mutant of TypeList that lists the kind of every source
TypeListOfAll(sources) == TypesOf(sources)

\* Array.from(new Set(sources.map((s) => s.report.type)))
TypeList(sources) == SetAddAll(<<>>, TypesOf(sources), 1)

\* the mutant of MergedTotals that takes the totals the first report states
MergedTotalsOfFirst(sources, entries) == normalizeTotals(sources[1].report).val

\* App.tsx 85
MergedTotals(sources, entries) == computeTotalsFromEntries(entries)

DataOf(entries, totals, reportType, sourceLabels) ==
  [threw |-> FALSE,
   data |-> [isNull |-> FALSE, entries |-> entries, totals |-> totals,
             reportType |-> reportType, sourceLabels |-> sourceLabels],
   error |-> NoError]
ErrorResult(error) == [threw |-> FALSE, data |-> NoData, error |-> error]
Uncaught == [threw |-> TRUE, data |-> NoData, error |-> NoError]

\* App.tsx 57-90: what parseInputs returns for the sources it collected
ResultOf(sources) ==
  LET types == TypeList(sources)
      sourceLabels == SelectSeq([i \in DOMAIN sources |-> sources[i].label],
                                LAMBDA l : l # "") IN
  IF Len(sources) = 0 THEN NoResult
  ELSE IF Len(types) > 1
       THEN ErrorResult([ErrorOf(MergeError) EXCEPT !.types = types])
  ELSE Only({
    IF \E i \in DOMAIN normalized : normalized[i].threw THEN Uncaught
    ELSE IF Len(sources) = 1
         THEN Only({IF totals.threw THEN Uncaught
                    ELSE DataOf(normalized[1].val, totals.val, types[1], sourceLabels) :
                    totals \in {normalizeTotals(sources[1].report)}})
    ELSE Only({DataOf(entries, MergedTotals(sources, entries), types[1], sourceLabels) :
               entries \in {mergeNormalizedEntries(
                               [i \in DOMAIN sources |-> normalized[i].val])}}) :
    normalized \in {[i \in DOMAIN sources |-> normalizeEntries(sources[i].report)]}})

parseInputs(inputs) ==
  Only({IF collected.failed THEN ErrorResult(collected.error)
        ELSE ResultOf(collected.sources) :
        collected \in {CollectSources(inputs, 1, <<>>)}})

(***************************************************************************)
(* parseInputs on bounded inputs: up to MaxPasted inputs out of Pasteable, *)
(* which holds blank, malformed, unrecognized and well-formed contents of  *)
(* every report kind, minified, indented and padded.                       *)
(***************************************************************************)
MaxPasted == 2

\* the JSON of a daily, weekly or monthly entry
UsageJson(labelKey, e) ==
  JObj(<<labelKey, "inputTokens", "outputTokens", "cacheCreationTokens",
         "cacheReadTokens", "totalTokens", "totalCost", "modelsUsed">>
         \o (IF e.modelBreakdowns.defined THEN <<"modelBreakdowns">> ELSE <<>>),
       <<JStr(e.label), JNum(e.inputTokens), JNum(e.outputTokens),
         JNum(e.cacheCreationTokens), JNum(e.cacheReadTokens), JNum(e.totalTokens),
         JNum(e.cost), JArr([i \in DOMAIN e.models |-> JStr(e.models[i])])>>
         \o (IF e.modelBreakdowns.defined
             THEN <<JArr([i \in DOMAIN e.modelBreakdowns.list |->
                     LET mb == e.modelBreakdowns.list[i] IN
                     JObj(<<"modelName", "inputTokens", "outputTokens",
                            "cacheCreationTokens", "cacheReadTokens", "cost">>,
                          <<JStr(mb.modelName), JNum(mb.inputTokens), JNum(mb.outputTokens),
                            JNum(mb.cacheCreationTokens), JNum(mb.cacheReadTokens),
                            JNum(mb.cost)>>)])>>
             ELSE <<>>))

TotalsJson(t) ==
  JObj(<<"inputTokens", "outputTokens", "cacheCreationTokens", "cacheReadTokens",
         "totalTokens", "totalCost">>,
       <<JNum(t.inputTokens), JNum(t.outputTokens), JNum(t.cacheCreationTokens),
         JNum(t.cacheReadTokens), JNum(t.totalTokens), JNum(t.totalCost)>>)

ReportJson(key, list, totals) == JObj(<<key, "totals">>, <<JArr(list), TotalsJson(totals)>>)

SessionJson(sessionId, projectPath, lastActivity, e) ==
  SetKey(SetKey(UsageJson("sessionId", [e EXCEPT !.label = sessionId]),
                "projectPath", JStr(projectPath)),
         "lastActivity", JStr(lastActivity))

BlockJson(startTime, isGap, n, models) ==
  JObj(<<"startTime", "isGap", "tokenCounts", "totalTokens", "costUSD", "models">>,
       <<JStr(startTime), JBool(isGap),
         JObj(<<"inputTokens", "outputTokens", "cacheCreationInputTokens",
                "cacheReadInputTokens">>,
              <<JNum(n), JNum(n + 1), JNum(n + 2), JNum(n + 3)>>),
         JNum(4 * n + 6), JNum(2 * n),
         JArr([i \in DOMAIN models |-> JStr(models[i])])>>)

CodexJson(date, n) ==
  JObj(<<"date", "inputTokens", "cachedInputTokens", "outputTokens", "totalTokens",
         "costUSD", "models">>,
       <<JStr(date), JNum(n), JNum(n + 1), JNum(n + 2), JNum(2 * n + 2), JNum(3 * n),
         JObj(<<"m3">>, <<JObj(<<"inputTokens", "cachedInputTokens", "outputTokens">>,
                               <<JNum(n), JNum(n + 1), JNum(n + 2)>>)>>)>>)

\* totals that are not the sums of any entries here
StatedTotals ==
  [inputTokens |-> 100, outputTokens |-> 200, cacheCreationTokens |-> 300,
   cacheReadTokens |-> 400, totalTokens |-> 1000, totalCost |-> 50]

DailyOne ==
  LET list == <<Entry("2025-07-01", 1, <<"m1">>, NoBreakdowns),
                Entry("2025-07-02", 2, <<"m1", "m2">>,
                      Breakdowns(<<Breakdown("m1", 1), Breakdown("m2", 2)>>))>> IN
  ReportJson("daily", [i \in DOMAIN list |-> UsageJson("date", list[i])], sumEntries(list))

DailyTwo ==
  LET list == <<Entry("2025-07-02", 3, <<"m2">>, Breakdowns(<<Breakdown("m1", 3)>>)),
                Entry("a", 1, <<"m3">>, NoBreakdowns)>> IN
  ReportJson("daily", [i \in DOMAIN list |-> UsageJson("date", list[i])], StatedTotals)

\* a daily report without a totals object
DailyBare == JObj(<<"daily">>, <<JArr(<<>>)>>)

WeeklyOne ==
  LET list == <<Entry("2025-07-01", 2, <<"m1">>, Breakdowns(<<>>))>> IN
  ReportJson("weekly", [i \in DOMAIN list |-> UsageJson("week", list[i])], sumEntries(list))

SessionOne ==
  ReportJson("sessions",
    <<SessionJson("a", "Unknown Project", "2025-07-02", Entry("", 1, <<"m1">>, NoBreakdowns)),
      SessionJson("a", "B", "2025-07-01", Entry("", 2, <<"m2">>, NoBreakdowns))>>,
    StatedTotals)

BlocksOne ==
  JObj(<<"blocks">>,
       <<JArr(<<BlockJson("2025-07-01T10:00:00.000Z", FALSE, 1, <<"m1">>),
                BlockJson("2025-07-01T10:00:00.000Z", TRUE, 5, <<>>),
                BlockJson("2025-07-01T15:00:00.000Z", FALSE, 2, <<"m1", "m2">>)>>)>>)

CodexOne ==
  JObj(<<"daily", "totals">>,
       <<JArr(<<CodexJson("Jul 1, 2025", 4)>>),
         JObj(<<"inputTokens", "costUSD">>, <<JNum(4), JNum(12)>>)>>)

Pasteable ==
  {SourceInput("", <<>>),
   SourceInput("L1", <<WS, WS>>),
   SourceInput("", <<Tok("{"), Tok("bad")>>),
   SourceInput("L2", <<Tok("["), NumTok(1), Tok(",")>>),
   SourceInput("", <<NumTok(1)>>),
   SourceInput("L3", JSONstringify(JObj(<<"foo">>, <<JNum(1)>>))),
   SourceInput("", <<Tok("["), Tok("]")>>),
   SourceInput("L4", JSONstringifyPretty(DailyOne)),
   SourceInput("", JSONstringify(DailyTwo)),
   SourceInput("L5", JSONstringify(DailyBare)),
   SourceInput("L6", JSONstringify(SessionOne)),
   SourceInput("", JSONstringifyPretty(WeeklyOne)),
   SourceInput("L7", <<WS>> \o JSONstringify(JArr(<<WeeklyOne, DailyOne, SessionOne>>)) \o <<WS>>),
   SourceInput("L8", JSONstringify(JArr(<<DailyTwo, DailyOne>>))),
   SourceInput("L9", JSONstringify(CodexOne)),
   SourceInput("", JSONstringify(BlocksOne))}

InitParse ==
  /\ pasted \in UNION {[1..m -> Pasteable] : m \in 0..MaxPasted}
  /\ result = NoResult
  /\ ppc = "start"
  /\ CodecIdle
  /\ AggIdle
  /\ ShareIdle
  /\ NormIdle
  /\ StatIdle
  /\ PriceIdle
  /\ CliIdle
  /\ FrameIdle
  /\ StoreIdle
  /\ ButtonIdle
  /\ TabIdle

\* parseInputs(inputs)
ParseInputs ==
  /\ ppc = "start"
  /\ result' = parseInputs(pasted)
  /\ ppc' = "parsed"
  /\ UNCHANGED pasted
  /\ UNCHANGED <<codecVars, aggVars, shareVars, normVars, statVars, priceVars, cliVars, frameVars, storeVars, buttonVars, tabVars>>

NextParse == ParseInputs

SpecParse == InitParse /\ [][NextParse]_vars

(***************************************************************************)
(* C3 - C6: what the claims say of a finished parseInputs.                 *)
(***************************************************************************)
Parsed == ppc = "parsed"
IsBlank(input) == trim(input.content) = <<>>
NonBlankPasted == SelectSeq(pasted, LAMBDA input : ~IsBlank(input))
IsValid(input) == JSONparse(trim(input.content)).ok

\* the values an input stands for: the elements of an array, or the value
ItemsOf(input) ==
  LET v == JSONparse(trim(input.content)).v IN
  IF v.t = "arr" THEN v.el ELSE <<v>>

IsDetected(input) ==
  /\ IsValid(input)
  /\ LET items == ItemsOf(input) IN \A i \in DOMAIN items : ~DetectAdapted(items[i]).threw
AllDetected == \A i \in DOMAIN NonBlankPasted : IsDetected(NonBlankPasted[i])

RECURSIVE ReportsFrom(_, _)
\* the detected reports of inputs[i..], in order
ReportsFrom(inputs, i) ==
  IF i > Len(inputs) THEN <<>>
  ELSE LET items == ItemsOf(inputs[i]) IN
       [k \in DOMAIN items |-> DetectAdapted(items[k]).val] \o ReportsFrom(inputs, i + 1)

Reports == ReportsFrom(NonBlankPasted, 1)
KindsOf(reports) == [i \in DOMAIN reports |-> Get(reports[i], "type").s]
Kinds == KindsOf(Reports)

\* the distinct members of seq in the order of their first appearance
FirstSeen(seq) ==
  LET first == SelectSeq([i \in 1..Len(seq) |-> i],
                         LAMBDA i : \A j \in 1..(i - 1) : seq[j] # seq[i]) IN
  [k \in DOMAIN first |-> seq[first[k]]]

RECURSIVE EntriesFrom(_, _)
\* the normalized entries of reports[i..], in order
EntriesFrom(reports, i) ==
  IF i > Len(reports) THEN <<>>
  ELSE normalizeEntries(reports[i]).val \o EntriesFrom(reports, i + 1)

TotalOf(totals, f) == IF f = "cost" THEN totals.totalCost ELSE totals[f]

\* C3: two or more contributing reports of one kind give data whose totals
\* are, field by field, the sums over all normalized entries of all the
\* reports, and so are the sums over the merged entries.
C3_TotalsRecomputed ==
  (Parsed /\ AllDetected) =>
    LET reports == Reports
        entries == EntriesFrom(reports, 1) IN
    (Len(reports) >= 2 /\ Len(FirstSeen(KindsOf(reports))) = 1) =>
      /\ ~result.threw /\ ~result.data.isNull /\ result.error.isNull
      /\ \A f \in NumericFields :
           /\ TotalOf(result.data.totals, f) = SumField(entries, f, 1)
           /\ TotalOf(result.data.totals, f) = SumField(result.data.entries, f, 1)

\* two reports that share a label, neither stating the totals returned
C3_Witness ==
  /\ Parsed /\ AllDetected /\ ~result.data.isNull
  /\ LET reports == Reports IN
     /\ Len(reports) = 2
     /\ Len(result.data.entries) < Len(EntriesFrom(reports, 1))
     /\ \A i \in DOMAIN reports :
          /\ ~normalizeTotals(reports[i]).threw
          /\ normalizeTotals(reports[i]).val # result.data.totals
     /\ \E i \in DOMAIN reports :
          normalizeTotals(reports[i]).val # sumEntries(normalizeEntries(reports[i]).val)

\* C4: when every input parsed and was detected, kinds that are not all the
\* same give no data and the merge error that lists the distinct kinds in
\* first-seen order; kinds that are all the same give no merge error.
C4_MergeErrorListsKinds ==
  (Parsed /\ AllDetected) =>
    LET kinds == FirstSeen(Kinds) IN
    IF Len(kinds) > 1
    THEN /\ ~result.threw /\ result.data.isNull
         /\ result.error = [ErrorOf(MergeError) EXCEPT !.types = kinds]
    ELSE result.error.msg # MergeError

\* three kinds, one of them met twice, were listed once each
C4_Witness ==
  /\ Parsed /\ AllDetected
  /\ LET kinds == Kinds IN
     /\ Len(FirstSeen(kinds)) = 3 /\ Len(kinds) > 3
     /\ kinds[1] # "daily"
     /\ result.error.types = FirstSeen(kinds)

\* C5 as stated: parseInputs returns; never both data and an error; and
\* neither of them exactly when every input is blank.
C5_DataOrOneError ==
  Parsed =>
    /\ ~result.threw
    /\ result.data.isNull \/ result.error.isNull
    /\ (result.data.isNull /\ result.error.isNull) <=> NonBlankPasted = <<>>

\* the first input that is not valid JSON, or is not detected
FirstFailing == CHOOSE i \in DOMAIN NonBlankPasted :
  /\ ~IsDetected(NonBlankPasted[i])
  /\ \A j \in 1..(i - 1) : IsDetected(NonBlankPasted[j])
FirstInvalid == CHOOSE i \in DOMAIN NonBlankPasted :
  /\ ~IsValid(NonBlankPasted[i])
  /\ \A j \in 1..(i - 1) : IsValid(NonBlankPasted[j])
SomeInvalid == \E i \in DOMAIN NonBlankPasted : ~IsValid(NonBlankPasted[i])

\* the error detectReportType(adaptReport(item)) throws for the first item
\* of the input that has one
DetectionError(input) ==
  LET items == ItemsOf(input)
      k == CHOOSE k \in DOMAIN items :
             /\ DetectAdapted(items[k]).threw
             /\ \A j \in 1..(k - 1) : ~DetectAdapted(items[j]).threw IN
  ErrorOf(DetectAdapted(items[k]).msg)

\* C6 as stated: when some non-blank input is not valid JSON the result is
\* the syntax error of the first such input, whatever the others hold.
C6_FirstSyntaxErrorWins ==
  (Parsed /\ SomeInvalid) =>
    /\ result.data.isNull
    /\ result.error = SyntaxErrorOf(JSONparse(trim(NonBlankPasted[FirstInvalid].content)))

\* C6 amended: when some non-blank input is not valid JSON the result is the
\* error of the first non-blank input that fails: its syntax error when it
\* is not valid JSON, and the error of its detection when it parses but is
\* not a recognized report; blank inputs give no error.
C6_FirstFailureWins ==
  /\ (Parsed /\ SomeInvalid) =>
       /\ ~result.threw /\ result.data.isNull
       /\ result.error =
            IF IsValid(NonBlankPasted[FirstFailing])
            THEN DetectionError(NonBlankPasted[FirstFailing])
            ELSE SyntaxErrorOf(JSONparse(trim(NonBlankPasted[FirstFailing].content)))
       /\ FirstFailing = FirstInvalid =>
            result.error = SyntaxErrorOf(JSONparse(trim(NonBlankPasted[FirstInvalid].content)))
  /\ (Parsed /\ NonBlankPasted = <<>>) => result = NoResult

\* a detected report came first and the text after it was not valid JSON
C6_Witness ==
  /\ Parsed /\ Len(pasted) = 2
  /\ ~IsBlank(pasted[1]) /\ IsDetected(pasted[1])
  /\ ~IsBlank(pasted[2]) /\ ~IsValid(pasted[2])
  /\ result.error.msg = SyntaxError /\ result.error.pos > 1

(***************************************************************************)
(* adaptReport, detectReportType, normalizeEntries and normalizeTotals on  *)
(* one value at a time, as App.tsx 43 and 69-80 call them: given is the    *)
(* parsed value, adaptOut, detectOut and normOut what the calls returned   *)
(* or threw.  detectReportType is called on the value itself or on what    *)
(* adaptReport returned.                                                   *)
(***************************************************************************)
LongId == "a-2025-07-012025-07-02"

\* sessions with and without a project path, two pairs with one timestamp
SessionPool ==
  {SessionJson("a", "B", "2025-07-02", Entry("", 1, <<"m1">>, NoBreakdowns)),
   SessionJson(LongId, "Unknown Project", "2025-07-01",
               Entry("", 2, <<"m2">>, Breakdowns(<<Breakdown("m2", 2)>>))),
   SessionJson("a", "", "2025-07-01", Entry("", 3, <<"m1", "m2">>, NoBreakdowns)),
   SetKey(UsageJson("sessionId", Entry(LongId, 4, <<>>, NoBreakdowns)),
          "lastActivity", JStr("2025-07-02"))}

\* blocks and gaps
BlockPool ==
  {BlockJson("2025-07-01T10:00:00.000Z", FALSE, 1, <<"m1">>),
   BlockJson("2025-07-01T10:00:00.000Z", TRUE, 5, <<>>),
   BlockJson("2025-07-01T15:00:00.000Z", FALSE, 2, <<"m1", "m2">>),
   BlockJson("2025-07-01T15:00:00.000Z", TRUE, 7, <<"m3">>)}

ListsOf(pool) == UNION {[1..m -> pool] : m \in 0..MaxEntries}

\* reports whose entries carry every field normalizeEntries reads
SampleReports ==
  {ReportJson("sessions", list, StatedTotals) : list \in ListsOf(SessionPool)}
    \cup {ReportJson("blocks", list, StatedTotals) : list \in ListsOf(BlockPool)}
    \cup {DailyOne, DailyTwo, WeeklyOne, BlocksOne,
          ReportJson("monthly", <<UsageJson("month", Entry("2025-07", 1, <<"m1">>, NoBreakdowns))>>,
                     StatedTotals)}

\* values that are no report, reports in the vendor shape, and objects whose
\* report keys are misleading
OddValues ==
  {JNull, JNum(1), JNum(0), JStr("a"), JStr(""), JBool(FALSE), JBool(TRUE),
   JArr(<<>>), JArr(<<JNum(1)>>), JArr(<<DailyOne>>),
   JObj(<<>>, <<>>), JObj(<<"foo">>, <<JNum(1)>>),
   JObj(<<"daily">>, <<JNum(1)>>),
   JObj(<<"daily">>, <<JNull>>),
   JObj(<<"daily", "weekly">>, <<JObj(<<>>, <<>>), JArr(<<>>)>>),
   JObj(<<"blocks", "sessions", "monthly">>, <<JArr(<<>>), JArr(<<>>), JStr("a")>>),
   JObj(<<"weekly", "daily">>, <<JArr(<<>>), JArr(<<>>)>>),
   JObj(<<"type", "monthly", "foo">>, <<JStr("weekly"), JArr(<<>>), JNum(1)>>),
   JObj(<<"sessions", "totals">>, <<JArr(<<>>), JObj(<<>>, <<>>)>>),
   JObj(<<"daily", "totals">>, <<JArr(<<>>), JObj(<<>>, <<>>)>>),
   JObj(<<"daily">>, <<JArr(<<JNum(1)>>)>>),
   JObj(<<"daily">>, <<JArr(<<JNull>>)>>),
   JObj(<<"daily">>, <<JArr(<<JStr("costUSD")>>)>>),
   JObj(<<"daily">>, <<JArr(<<JArr(<<>>)>>)>>),
   JObj(<<"daily">>, <<JArr(<<JObj(<<>>, <<>>)>>)>>),
   JObj(<<"daily">>, <<JArr(<<JObj(<<"costUSD", "totalCost">>, <<JNum(1), JNum(2)>>)>>)>>),
   JObj(<<"daily">>, <<JArr(<<JObj(<<"totalCost">>, <<JNum(2)>>), CodexJson("Jul 1, 2025", 4)>>)>>),
   JObj(<<"weekly">>, <<JArr(<<CodexJson("Jul 1, 2025", 4)>>)>>),
   CodexOne,
   JObj(<<"daily", "totals">>,
        <<JArr(<<CodexJson("Jul 2, 2025", 1), CodexJson("Jul 1, 2025", 4)>>), JNull>>),
   JObj(<<"daily">>,
        <<JArr(<<CodexJson("Jul 1, 2025", 4),
                 JObj(<<"date", "totalCost", "cacheReadTokens", "modelsUsed">>,
                      <<JStr("2025-07-02"), JNum(2), JNum(5), JArr(<<JStr("m1")>>)>>),
                 JObj(<<>>, <<>>), JNum(1)>>)>>),
   JObj(<<"daily">>,
        <<JArr(<<JObj(<<"costUSD", "models">>,
                      <<JNull,
                        JObj(<<"m2", "m1">>,
                             <<JObj(<<"cachedInputTokens", "cost">>, <<JNum(7), JNum(9)>>),
                               JObj(<<>>, <<>>)>>)>>),
                 JObj(<<"costUSD", "cachedInputTokens", "models">>,
                      <<JNum(3), JNull, JArr(<<JStr("m1")>>)>>)>>)>>),
   JObj(<<"daily">>, <<JArr(<<CodexJson("Jul 1, 2025", 4), JNull>>)>>),
   JObj(<<"daily">>,
        <<JArr(<<JObj(<<"costUSD", "models">>,
                      <<JNum(1), JObj(<<"m1">>, <<JNull>>)>>)>>)>>)}

InitNormalize ==
  /\ given \in SampleReports \cup OddValues
  /\ adaptOut = NotCalled
  /\ detectOut = NotCalled
  /\ normOut = [entries |-> NotCalled, totals |-> NotCalled]
  /\ npc = "start"
  /\ CodecIdle
  /\ AggIdle
  /\ ShareIdle
  /\ ParseIdle
  /\ StatIdle
  /\ PriceIdle
  /\ CliIdle
  /\ FrameIdle
  /\ StoreIdle
  /\ ButtonIdle
  /\ TabIdle

\* adaptReport(data)
AdaptReport ==
  /\ npc = "start"
  /\ adaptOut' = adaptReport(given)
  /\ npc' = "adapted"
  /\ UNCHANGED <<given, detectOut, normOut>>
  /\ UNCHANGED <<codecVars, aggVars, shareVars, parseVars, statVars, priceVars, cliVars, frameVars, storeVars, buttonVars, tabVars>>

\* the argument of detectReportType: the value, or what adaptReport returned
DetectArg == IF adaptOut = NotCalled THEN given ELSE adaptOut.val

\* detectReportType(data)
DetectReportType ==
  /\ \/ npc = "start"
     \/ npc = "adapted" /\ ~adaptOut.threw
  /\ detectOut' = detectReportType(DetectArg)
  /\ npc' = "detected"
  /\ UNCHANGED <<given, adaptOut, normOut>>
  /\ UNCHANGED <<codecVars, aggVars, shareVars, parseVars, statVars, priceVars, cliVars, frameVars, storeVars, buttonVars, tabVars>>

\* normalizeEntries(report) and normalizeTotals(report), which copy what they
\* sort and filter and leave the report as it was
NormalizeReport ==
  /\ npc = "detected" /\ ~detectOut.threw
  /\ given \in SampleReports
  /\ normOut' = [entries |-> normalizeEntries(detectOut.val),
                 totals |-> normalizeTotals(detectOut.val)]
  /\ npc' = "normalized"
  /\ UNCHANGED <<given, adaptOut, detectOut>>
  /\ UNCHANGED <<codecVars, aggVars, shareVars, parseVars, statVars, priceVars, cliVars, frameVars, storeVars, buttonVars, tabVars>>

NextNormalize == AdaptReport \/ DetectReportType \/ NormalizeReport

SpecNormalize == InitNormalize /\ [][NextNormalize]_vars

(***************************************************************************)
(* C14 - C17: what the claims say of the calls on one value.               *)
(***************************************************************************)
Normalized == npc = "normalized"
KindOf(report) == Get(report, "type").s
GivenBlocks == Get(given, "blocks").el
NonGaps == SelectSeq(GivenBlocks, LAMBDA b : Get(b, "isGap") # JBool(TRUE))

\* C14: for a blocks report normalizeEntries returns the blocks whose isGap
\* is not true, in their order, each with its own label, counts, cost and
\* models and without modelBreakdowns; normalizeTotals returns for each of
\* the six fields the sum over those blocks, whatever the report's totals
\* object says, which is sumEntries of the normalized entries.
C14_GapsDropped ==
  (Normalized /\ KindOf(detectOut.val) = "blocks") =>
    /\ ~normOut.entries.threw /\ ~normOut.totals.threw
    /\ LET entries == normOut.entries.val
           totals == normOut.totals.val IN
       /\ Len(entries) = Len(NonGaps)
       /\ \A i \in DOMAIN entries :
            LET b == NonGaps[i]
                counts == Get(b, "tokenCounts") IN
            /\ entries[i].label = BlockLabel(Get(b, "startTime").s)
            /\ entries[i].inputTokens = Get(counts, "inputTokens").n
            /\ entries[i].outputTokens = Get(counts, "outputTokens").n
            /\ entries[i].cacheCreationTokens = Get(counts, "cacheCreationInputTokens").n
            /\ entries[i].cacheReadTokens = Get(counts, "cacheReadInputTokens").n
            /\ entries[i].totalTokens = Get(b, "totalTokens").n
            /\ entries[i].cost = Get(b, "costUSD").n
            /\ entries[i].models = ToModels(Get(b, "models"))
            /\ ~entries[i].modelBreakdowns.defined
       /\ \A f \in NumericFields \ {"cost"} : totals[f] = SumField(entries, f, 1)
       /\ totals.totalCost = SumField(entries, "cost", 1)
       /\ totals = sumEntries(entries)

\* a gap between two blocks was dropped, and the totals are not the stated ones
C14_Witness ==
  /\ Normalized /\ KindOf(detectOut.val) = "blocks"
  /\ Len(GivenBlocks) = 3 /\ Len(NonGaps) = 2
  /\ Get(GivenBlocks[2], "isGap") = JBool(TRUE)
  /\ HasKey(given, "totals")
  /\ Get(Get(given, "totals"), "totalCost").n # normOut.totals.val.totalCost
  /\ normOut.totals.val.totalCost > 0

GivenSessions == Get(given, "sessions").el
TimeOf(session) == GetTime(Get(session, "lastActivity").s).t

\* the label C15 gives a session: its project path, or the end of its id
LabelOfSession(session) ==
  LET path == Get(session, "projectPath")
      id == Chars(Get(session, "sessionId").s) IN
  IF path.t = "str" /\ path.s \notin {"", "Unknown Project"} THEN Chars(path.s)
  ELSE SubSeq(id, IF Len(id) > 20 THEN Len(id) - 19 ELSE 1, Len(id))

\* order is the stable ascending sort of the sessions by time: a permutation
\* of their positions, times not falling, equal times in the given order
StableByTime(order) ==
  /\ \A i, j \in DOMAIN order : i # j => order[i] # order[j]
  /\ \A i \in 1..(Len(order) - 1) :
       \/ TimeOf(GivenSessions[order[i]]) < TimeOf(GivenSessions[order[i + 1]])
       \/ /\ TimeOf(GivenSessions[order[i]]) = TimeOf(GivenSessions[order[i + 1]])
          /\ order[i] < order[i + 1]

\* C15: for a session report normalizeEntries returns one entry per session,
\* ascending by last activity with sessions of one timestamp in their
\* original order; the label of an entry is the project path when there is
\* one other than "Unknown Project", else the last 20 characters of the
\* session id; the report's own sessions array keeps its order.
C15_SessionsStableByTime ==
  (Normalized /\ KindOf(detectOut.val) = "session") =>
    /\ ~normOut.entries.threw
    /\ Get(detectOut.val, "sessions").el = GivenSessions
    /\ LET entries == normOut.entries.val IN
       /\ Len(entries) = Len(GivenSessions)
       /\ \E order \in [DOMAIN GivenSessions -> DOMAIN GivenSessions] :
            /\ StableByTime(order)
            /\ \A i \in DOMAIN entries :
                 /\ Chars(entries[i].label) = LabelOfSession(GivenSessions[order[i]])
                 /\ entries[i].inputTokens = Get(GivenSessions[order[i]], "inputTokens").n
                 /\ entries[i].cost = Get(GivenSessions[order[i]], "totalCost").n
                 /\ entries[i].models = ToModels(Get(GivenSessions[order[i]], "modelsUsed"))

\* three sessions given latest first, two of them of one timestamp, came out
\* in another order, labelled with a path and with the end of a long id
C15_Witness ==
  /\ Normalized /\ KindOf(detectOut.val) = "session"
  /\ Len(GivenSessions) = 3
  /\ TimeOf(GivenSessions[1]) = TimeOf(GivenSessions[2])
  /\ GivenSessions[1] # GivenSessions[2]
  /\ TimeOf(GivenSessions[3]) < TimeOf(GivenSessions[1])
  /\ \E i \in 1..3 : normOut.entries.val[i].label = "B"
  /\ \E i \in 1..3 : normOut.entries.val[i].label = "2025-07-012025-07-02"

\* the names C16 lists, in its order, and the tag of each
KindNames == <<"daily", "weekly", "monthly", "sessions", "blocks">>
KindTags == <<"daily", "weekly", "monthly", "session", "blocks">>
ArrayValued(v) == {i \in DOMAIN KindNames : HasKey(v, KindNames[i]) /\ Get(v, KindNames[i]).t = "arr"}

\* C16: detectReportType throws the not-an-object error for null and for
\* every value that is no object; for any other value it throws the
\* unrecognized-format error when none of daily, weekly, monthly, sessions,
\* blocks is an array-valued property, and otherwise returns the value's
\* properties, unchanged, with type set to the tag of the first such name.
C16_DetectByFirstArrayKey ==
  (npc = "detected") =>
    IF DetectArg.t \notin {"obj", "arr"}
    THEN detectOut = Thrown(NotAnObject)
    ELSE IF ArrayValued(DetectArg) = {}
    THEN detectOut = Thrown(Unrecognized)
    ELSE LET first == CHOOSE i \in ArrayValued(DetectArg) :
                        \A j \in ArrayValued(DetectArg) : i <= j
             tagged == detectOut.val IN
         /\ ~detectOut.threw
         /\ Get(tagged, "type") = JStr(KindTags[first])
         /\ Range(tagged.keys) = Range(DetectArg.keys) \cup {"type"}
         /\ Len(tagged.keys) = Cardinality(Range(tagged.keys))
         /\ \A k \in Range(DetectArg.keys) \ {"type"} : Get(tagged, k) = Get(DetectArg, k)

\* an object whose daily is no array and whose weekly is one was tagged weekly
C16_Witness ==
  /\ npc = "detected" /\ ~detectOut.threw
  /\ HasKey(DetectArg, "daily") /\ Get(DetectArg, "daily").t # "arr"
  /\ Get(detectOut.val, "type") = JStr("weekly")
  /\ Get(detectOut.val, "daily") = Get(DetectArg, "daily")

\* the vendor shape as C17 tells it: an object whose daily is a non-empty
\* array and whose first daily element carries costUSD and no totalCost
VendorShape(v) ==
  /\ v.t = "obj"
  /\ Get(v, "daily").t = "arr" /\ Get(v, "daily").el # <<>>
  /\ LET first == Get(v, "daily").el[1] IN
     HasKey(first, "costUSD") /\ ~HasKey(first, "totalCost")

\* C17: adaptReport returns its argument, and throws nothing, for every
\* value that is not of the vendor shape: null, primitives, arrays, objects
\* without a daily array or with an empty one, objects whose first daily
\* element does not carry costUSD without totalCost.
C17_PassThrough ==
  (npc = "adapted" /\ ~VendorShape(given)) => adaptOut = Returned(given)

(***************************************************************************)
(* C18: the sourceLabels of a parseInputs result.                          *)
(***************************************************************************)
\* the labels of the non-blank inputs that have one, in input order
LabelsOfSources ==
  SelectSeq([i \in DOMAIN NonBlankPasted |-> NonBlankPasted[i].label], LAMBDA l : l # "")

\* C18: the sourceLabels of a result with data are the non-empty labels of
\* the non-blank inputs in input order, one per input: an input without a
\* label and a blank input add nothing, and an input that is an array of
\* several reports adds its label once.
C18_OneLabelPerSource ==
  (Parsed /\ ~result.threw /\ ~result.data.isNull) =>
    result.data.sourceLabels = LabelsOfSources

\* ---------------------------------------------------------------------------
\* statistics.ts: percentile and computeStats, in exact arithmetic over the
\* finite rationals extended with the infinities and NaN of a JavaScript number
\* ---------------------------------------------------------------------------

MaxSamples == 3

Abs(i) == IF i < 0 THEN 0 - i ELSE i

RECURSIVE Gcd(_, _)
Gcd(a, b) == IF b = 0 THEN a ELSE Gcd(b, a % b)

\* the rational n/d, d # 0, in lowest terms with a positive denominator
Ratio(n, d) ==
  [k |-> "fin",
   n |-> (IF d < 0 THEN 0 - n ELSE n) \div Gcd(Abs(n), Abs(d)),
   d |-> Abs(d) \div Gcd(Abs(n), Abs(d))]

SignOf(a) == IF a.n > 0 THEN 1 ELSE IF a.n < 0 THEN -1 ELSE 0

Signed(i) == [k |-> "inf", n |-> i, d |-> 1]

Neg(a) == [a EXCEPT !.n = 0 - a.n]

\* a + b
Add(a, b) ==
  IF a.k = "nan" \/ b.k = "nan" THEN NaN
  ELSE IF a.k = "inf" /\ b.k = "inf" THEN (IF a.n = b.n THEN a ELSE NaN)
  ELSE IF a.k = "inf" THEN a
  ELSE IF b.k = "inf" THEN b
  ELSE Ratio(a.n * (b.d \div Gcd(a.d, b.d)) + b.n * (a.d \div Gcd(a.d, b.d)),
             a.d * (b.d \div Gcd(a.d, b.d)))

\* a - b
Sub(a, b) == Add(a, Neg(b))

\* a * b
Mul(a, b) ==
  IF a.k = "nan" \/ b.k = "nan" THEN NaN
  ELSE IF a.k = "inf" \/ b.k = "inf"
    THEN (IF SignOf(a) * SignOf(b) = 0 THEN NaN ELSE Signed(SignOf(a) * SignOf(b)))
  ELSE Ratio((a.n \div Gcd(Abs(a.n), b.d)) * (b.n \div Gcd(Abs(b.n), a.d)),
             (a.d \div Gcd(Abs(b.n), a.d)) * (b.d \div Gcd(Abs(a.n), b.d)))

\* a / b
Div(a, b) ==
  IF a.k = "nan" \/ b.k = "nan" THEN NaN
  ELSE IF a.k = "inf" THEN (IF b.k = "inf" THEN NaN
                            ELSE Signed(IF b.n < 0 THEN 0 - a.n ELSE a.n))
  ELSE IF b.k = "inf" THEN Fin(0)
  ELSE IF b.n = 0 THEN (IF a.n = 0 THEN NaN ELSE Signed(SignOf(a)))
  ELSE Ratio((a.n \div Gcd(Abs(a.n), Abs(b.n))) * (b.d \div Gcd(a.d, b.d)),
             (a.d \div Gcd(a.d, b.d)) * (b.n \div Gcd(Abs(a.n), Abs(b.n))))

\* Math.floor and Math.ceil of a finite number
Floor(a) == a.n \div a.d
Ceil(a) == 0 - ((0 - a.n) \div a.d)

\* percentile(sorted, p)
percentile(sorted, p) ==
  IF Len(sorted) = 0 THEN Fin(0)
  ELSE IF Len(sorted) = 1 THEN sorted[1]
  ELSE Only({ Add(sorted[Floor(rank) + 1],
                  Mul(Sub(rank, Fin(Floor(rank))),
                      Sub(sorted[Ceil(rank) + 1], sorted[Floor(rank) + 1])))
              : rank \in {Mul(p, Fin(Len(sorted) - 1))} })

\* the sign of the comparator (a, b) => a - b; a NaN difference orders nothing
CompareNumbers(a, b) == IF Sub(a, b).k = "nan" THEN 0 ELSE SignOf(Sub(a, b))

\* values.toSorted((a, b) => a - b): a stable sort on a copy
RECURSIVE InsertNumber(_, _, _)
InsertNumber(acc, v, i) ==
  IF i > Len(acc) THEN Append(acc, v)
  ELSE IF CompareNumbers(acc[i], v) > 0
    THEN SubSeq(acc, 1, i - 1) \o <<v>> \o SubSeq(acc, i, Len(acc))
  ELSE InsertNumber(acc, v, i + 1)

RECURSIVE SortNumbers(_, _, _)
SortNumbers(values, i, acc) ==
  IF i > Len(values) THEN acc
  ELSE SortNumbers(values, i + 1, InsertNumber(acc, values[i], 1))

\* sorted.reduce((s, v) => s + v, 0)
RECURSIVE SumNumbers(_, _, _)
SumNumbers(sorted, i, acc) ==
  IF i > Len(sorted) THEN acc
  ELSE SumNumbers(sorted, i + 1, Add(acc, sorted[i]))

\* the loop sumSqDiff += (v - mean) * (v - mean)
RECURSIVE SumSqDiff(_, _, _, _)
SumSqDiff(sorted, mean, i, acc) ==
  IF i > Len(sorted) THEN acc
  ELSE SumSqDiff(sorted, mean, i + 1,
                 Add(acc, Mul(Sub(sorted[i], mean), Sub(sorted[i], mean))))

\* the variance with the population denominator n
VariancePopulation(sumSqDiff, n) == Div(sumSqDiff, Fin(n))

\* n > 1 ? sumSqDiff / (n - 1) : 0
Variance(sumSqDiff, n) == IF n > 1 THEN Div(sumSqDiff, Fin(n - 1)) ELSE Fin(0)

\* Math.sqrt, kept exact: the root of a positive rational q is 1 * sqrt(q)
Sqrt(q) ==
  IF q.k = "fin" /\ q.n > 0 THEN Root(Fin(1), q)
  ELSE IF q.k = "nan" \/ q.n < 0 THEN Root(NaN, Fin(1))
  ELSE Root(q, Fin(1))

\* r / q and q / r for a root r = c * sqrt(rad) and a number q
RootOver(r, q) == Root(Div(r.c, q), r.rad)
OverRoot(q, r) == Root(Div(q, Mul(r.c, r.rad)), r.rad)

\* r * r * r
Cube(r) == Root(Mul(Mul(Mul(r.c, r.c), r.c), r.rad), r.rad)

\* the loop sumCubeDiff += ((v - mean) / standardDeviation) ^ 3
RECURSIVE SumCubeDiff(_, _, _, _, _)
SumCubeDiff(sorted, mean, deviation, i, acc) ==
  IF i > Len(sorted) THEN acc
  ELSE SumCubeDiff(sorted, mean, deviation, i + 1,
         Root(Add(acc.c, Cube(OverRoot(Sub(sorted[i], mean), deviation)).c),
              acc.rad))

\* the skewness branch of computeStats
Skewness(sorted, mean, deviation) ==
  IF Len(sorted) < 3 \/ deviation.c = Fin(0) THEN Root(NaN, Fin(1))
  ELSE Root(Mul(Ratio(Len(sorted), (Len(sorted) - 1) * (Len(sorted) - 2)),
                SumCubeDiff(sorted, mean, deviation, 1,
                            Root(Fin(0), deviation.rad)).c),
            deviation.rad)

\* computeStats(values)
computeStats(values) ==
  IF Len(values) = 0 THEN NoStats
  ELSE
    LET n == Len(values)
        sorted == SortNumbers(values, 1, <<>>)
        sum == SumNumbers(sorted, 1, Fin(0))
        mean == Div(sum, Fin(n))
        standardDeviation == Sqrt(Variance(SumSqDiff(sorted, mean, 1, Fin(0)), n))
    IN [count |-> n,
        min |-> sorted[1],
        max |-> sorted[n],
        sum |-> sum,
        mean |-> mean,
        median |-> percentile(sorted, Ratio(1, 2)),
        standardDeviation |-> standardDeviation,
        coefficientOfVariation |->
          IF mean # Fin(0) THEN RootOver(standardDeviation, mean)
          ELSE Root(NaN, Fin(1)),
        skewness |-> Skewness(sorted, mean, standardDeviation),
        p25 |-> percentile(sorted, Ratio(1, 4)),
        p75 |-> percentile(sorted, Ratio(3, 4)),
        p90 |-> percentile(sorted, Ratio(9, 10)),
        p95 |-> percentile(sorted, Ratio(95, 100)),
        p99 |-> percentile(sorted, Ratio(99, 100)),
        iqr |-> Sub(percentile(sorted, Ratio(3, 4)), percentile(sorted, Ratio(1, 4)))]

\* the numbers a metric can take: costs and token counts, and the infinities
\* that JSON.parse gives for an overflowing literal such as 1e400
SamplePool == {Fin(0), Fin(1), Fin(2), Fin(-3), Infinity, Neg(Infinity)}

ProbabilityPool ==
  {Fin(0), Ratio(1, 4), Ratio(1, 2), Ratio(3, 4), Ratio(9, 10), Fin(1)}

SampleLists ==
  UNION { [1..len -> SamplePool] : len \in 0..MaxSamples }

Ascending(list) ==
  \A i \in 1..Len(list) - 1 : CompareNumbers(list[i], list[i + 1]) <= 0

InitStats ==
  /\ samples \in SampleLists
  /\ fraction \in ProbabilityPool
  /\ quantile = Fin(0)
  /\ described = NoStats
  /\ labeled = <<>>
  /\ statSources = <<>>
  /\ tpc = "start"
  /\ CodecIdle
  /\ AggIdle
  /\ ShareIdle
  /\ ParseIdle
  /\ NormIdle
  /\ PriceIdle
  /\ CliIdle
  /\ FrameIdle
  /\ StoreIdle
  /\ ButtonIdle
  /\ TabIdle

\* percentile(sorted, p) on a list that is sorted, as its callers give it
Percentile ==
  /\ tpc = "start"
  /\ Ascending(samples)
  /\ quantile' = percentile(samples, fraction)
  /\ tpc' = "percentile"
  /\ UNCHANGED <<samples, fraction, described, labeled, statSources>>
  /\ UNCHANGED <<codecVars, aggVars, shareVars, parseVars, normVars, priceVars, cliVars, frameVars, storeVars, buttonVars, tabVars>>

\* computeStats(values) on a list in any order
ComputeStats ==
  /\ tpc = "start"
  /\ described' = computeStats(samples)
  /\ tpc' = "stats"
  /\ UNCHANGED <<samples, fraction, quantile, labeled, statSources>>
  /\ UNCHANGED <<codecVars, aggVars, shareVars, parseVars, normVars, priceVars, cliVars, frameVars, storeVars, buttonVars, tabVars>>


Elements(list) == {list[i] : i \in 1..Len(list)}

\* the least and the greatest element of a non-empty list
Minimum(list) ==
  CHOOSE m \in Elements(list) : \A x \in Elements(list) : CompareNumbers(m, x) <= 0
Maximum(list) ==
  CHOOSE m \in Elements(list) : \A x \in Elements(list) : CompareNumbers(m, x) >= 0

\* C19: percentile of an ascending list is 0 for the empty list, the element
\* of a one-element list for every p in [0,1], the minimum of a non-empty list
\* at p = 0 and its maximum at p = 1.
C19_PercentileEnds ==
  (tpc = "percentile") =>
    /\ Len(samples) = 0 => quantile = Fin(0)
    /\ Len(samples) = 1 => quantile = samples[1]
    /\ (Len(samples) >= 1 /\ fraction = Fin(0)) => quantile = Minimum(samples)
    /\ (Len(samples) >= 1 /\ fraction = Fin(1)) => quantile = Maximum(samples)

AllFinite(list) == \A i \in 1..Len(list) : list[i].k = "fin"

\* the sample variance of a non-empty list, from its definition
SampleVariance(list) ==
  IF Len(list) = 1 THEN Fin(0)
  ELSE Div(SumSqDiff(list, Div(SumNumbers(list, 1, Fin(0)), Fin(Len(list))),
                     1, Fin(0)),
           Fin(Len(list) - 1))

\* the square of a root c * sqrt(rad)
Squared(r) == Mul(Mul(r.c, r.c), r.rad)

StatsContract ==
  /\ Len(samples) = 0 =>
       /\ described.count = 0
       /\ \A f \in {"min", "max", "sum", "mean", "median", "p25", "p75", "p90",
                    "p95", "p99", "iqr"} : described[f] = Fin(0)
       /\ described.standardDeviation = Root(Fin(0), Fin(1))
       /\ described.coefficientOfVariation.c = NaN
       /\ described.skewness.c = NaN
  /\ Len(samples) >= 1 =>
       /\ described.count = Len(samples)
       /\ Squared(described.standardDeviation) = SampleVariance(samples)
       /\ (described.coefficientOfVariation.c = NaN) <=> (described.mean = Fin(0))
       /\ (described.skewness.c = NaN) <=>
            (Len(samples) < 3 \/ described.standardDeviation.c = Fin(0))
       /\ described.iqr = Sub(described.p75, described.p25)

\* C20 as stated: computeStats of the empty list is count 0 and zeros, with
\* coefficientOfVariation and skewness NaN; of a non-empty list the variance
\* has the n - 1 denominator and is 0 for n = 1, coefficientOfVariation is NaN
\* exactly when the mean is 0, skewness is NaN exactly when n < 3 or the
\* standard deviation is 0, and iqr = p75 - p25.
C20_StatsOfAnyList == (tpc = "stats") => StatsContract

\* C20, amended: the same, for a list of finite numbers.
C20_StatsOfFiniteList ==
  (tpc = "stats" /\ AllFinite(samples)) => StatsContract

\* three finite values out of order with mean 0 and a positive variance of 7
C20_Witness ==
  /\ tpc = "stats"
  /\ samples = <<Fin(2), Fin(-3), Fin(1)>>
  /\ described.mean = Fin(0)
  /\ described.standardDeviation = Root(Fin(1), Fin(7))
  /\ described.coefficientOfVariation.c = NaN
  /\ described.skewness.c.k = "fin"
  /\ described.min = Fin(-3)

\* ---------------------------------------------------------------------------
\* statistics.ts: findStatSourceLabels
\* ---------------------------------------------------------------------------

\* a === b on numbers: NaN equals nothing
StrictEquals(a, b) == a.k # "nan" /\ b.k # "nan" /\ a = b

\* the fields checked, in the order of fieldsToCheck
FieldsToCheck == <<"min", "max", "median", "p75", "p90", "p95", "p99">>

\* labeledValues.filter((v) => v.value === value).map((v) => v.label),
\* keeping the first match only
RECURSIVE FirstMatch(_, _, _)
FirstMatch(labeledValues, value, i) ==
  IF i > Len(labeledValues) THEN <<>>
  ELSE IF StrictEquals(labeledValues[i].value, value)
    THEN <<labeledValues[i].label>>
  ELSE FirstMatch(labeledValues, value, i + 1)

\* labeledValues.filter((v) => v.value === value).map((v) => v.label)
RECURSIVE Matches(_, _, _)
Matches(labeledValues, value, i) ==
  IF i > Len(labeledValues) THEN <<>>
  ELSE (IF StrictEquals(labeledValues[i].value, value)
          THEN <<labeledValues[i].label>> ELSE <<>>)
       \o Matches(labeledValues, value, i + 1)

\* findStatSourceLabels(labeledValues, stats): the result object, a function
\* from the fields it has to their label lists
findStatSourceLabels(labeledValues, stats) ==
  IF stats.count = 0 THEN <<>>
  ELSE [field \in {FieldsToCheck[i] : i \in { j \in 1..Len(FieldsToCheck) :
                     Len(Matches(labeledValues, stats[FieldsToCheck[j]], 1)) > 0 }}
          |-> Matches(labeledValues, stats[field], 1)]

LabelPool == {"a", "L8"}

\* findStatSourceLabels(labeled, stats), the values labeled in input order and
\* the statistics those of computeStats or of no computation yet
FindStatSourceLabels ==
  /\ tpc \in {"start", "stats"}
  /\ \E labels \in [1..Len(samples) -> LabelPool] :
       /\ labeled' = [i \in 1..Len(samples) |->
                        [label |-> labels[i], value |-> samples[i]]]
       /\ statSources' = findStatSourceLabels(labeled', described)
  /\ tpc' = IF tpc = "start" THEN "sourcesOfNone" ELSE "sources"
  /\ UNCHANGED <<samples, fraction, quantile, described>>
  /\ UNCHANGED <<codecVars, aggVars, shareVars, parseVars, normVars, priceVars, cliVars, frameVars, storeVars, buttonVars, tabVars>>

NextStats == Percentile \/ ComputeStats \/ FindStatSourceLabels

SpecStats == InitStats /\ [][NextStats]_vars

\* the indices of the labeled values equal to the statistic of a field
MatchingAt(f) == {i \in 1..Len(labeled) : StrictEquals(labeled[i].value, described[f])}

\* labels is the list of the labels at the indices of I, in ascending index order
LabelsInOrder(labels, I) ==
  /\ Len(labels) = Cardinality(I)
  /\ \A i \in I : labels[Cardinality({j \in I : j <= i})] = labeled[i].label

CheckedFields == {"min", "max", "median", "p75", "p90", "p95", "p99"}

\* C21: findStatSourceLabels gives, for each of min, max, median, p75, p90, p95
\* and p99, the labels of all labeled values equal to that statistic, in input
\* order; a field with no equal value is absent; the result is empty when the
\* statistics have count 0.
C21_StatSources ==
  /\ (tpc = "sourcesOfNone") => (described.count = 0 /\ DOMAIN statSources = {})
  /\ (tpc = "sources" /\ described.count = 0) => DOMAIN statSources = {}
  /\ (tpc = "sources" /\ described.count > 0) =>
       /\ DOMAIN statSources \subseteq CheckedFields
       /\ \A f \in CheckedFields :
            /\ (f \in DOMAIN statSources) <=> (MatchingAt(f) # {})
            /\ (f \in DOMAIN statSources) =>
                 LabelsInOrder(statSources[f], MatchingAt(f))

\* two values share the minimum under different labels and both are listed
\* in input order, while the interpolated p90 is absent
C21_Witness ==
  /\ tpc = "sources"
  /\ samples = <<Fin(1), Fin(1), Fin(2)>>
  /\ labeled[1].label = "L8" /\ labeled[2].label = "a"
  /\ statSources["min"] = <<"L8", "a">>
  /\ "p90" \notin DOMAIN statSources

\* ---------------------------------------------------------------------------
\* pricing.ts: PRICING_MAP, extractFamilyKey, getTokenPricing and
\* calculateCostByTokenType
\* ---------------------------------------------------------------------------

\* the characters of a model name or family key
Name(s) ==
  CASE s = "" -> <<>>
    [] s = "3-5-haiku" -> <<"3", "-", "5", "-", "h", "a", "i", "k", "u">>
    [] s = "3-5-sonnet" -> <<"3", "-", "5", "-", "s", "o", "n", "n", "e", "t">>
    [] s = "3-7-sonnet" -> <<"3", "-", "7", "-", "s", "o", "n", "n", "e", "t">>
    [] s = "3-haiku" -> <<"3", "-", "h", "a", "i", "k", "u">>
    [] s = "3-opus" -> <<"3", "-", "o", "p", "u", "s">>
    [] s = "3-sonnet" -> <<"3", "-", "s", "o", "n", "n", "e", "t">>
    [] s = "claude--20250514" -> <<"c", "l", "a", "u", "d", "e", "-", "-", "2", "0", "2", "5", "0", "5", "1", "4">>
    [] s = "claude-3-5-haiku-20241022" -> <<"c", "l", "a", "u", "d", "e", "-", "3", "-", "5", "-", "h", "a", "i", "k", "u", "-", "2", "0", "2", "4", "1", "0", "2", "2">>
    [] s = "claude-3-5-sonnet-20241022" -> <<"c", "l", "a", "u", "d", "e", "-", "3", "-", "5", "-", "s", "o", "n", "n", "e", "t", "-", "2", "0", "2", "4", "1", "0", "2", "2">>
    [] s = "claude-3-opus-20240229" -> <<"c", "l", "a", "u", "d", "e", "-", "3", "-", "o", "p", "u", "s", "-", "2", "0", "2", "4", "0", "2", "2", "9">>
    [] s = "claude-haiku-3-20240307" -> <<"c", "l", "a", "u", "d", "e", "-", "h", "a", "i", "k", "u", "-", "3", "-", "2", "0", "2", "4", "0", "3", "0", "7">>
    [] s = "claude-haiku-4-5-20251001" -> <<"c", "l", "a", "u", "d", "e", "-", "h", "a", "i", "k", "u", "-", "4", "-", "5", "-", "2", "0", "2", "5", "1", "0", "0", "1">>
    [] s = "claude-opus-4-2025011" -> <<"c", "l", "a", "u", "d", "e", "-", "o", "p", "u", "s", "-", "4", "-", "2", "0", "2", "5", "0", "1", "1">>
    [] s = "claude-opus-4-20250115" -> <<"c", "l", "a", "u", "d", "e", "-", "o", "p", "u", "s", "-", "4", "-", "2", "0", "2", "5", "0", "1", "1", "5">>
    [] s = "claude-opus-4-6-20260101" -> <<"c", "l", "a", "u", "d", "e", "-", "o", "p", "u", "s", "-", "4", "-", "6", "-", "2", "0", "2", "6", "0", "1", "0", "1">>
    [] s = "claude-sonnet-4" -> <<"c", "l", "a", "u", "d", "e", "-", "s", "o", "n", "n", "e", "t", "-", "4">>
    [] s = "claude-sonnet-4-20250514" -> <<"c", "l", "a", "u", "d", "e", "-", "s", "o", "n", "n", "e", "t", "-", "4", "-", "2", "0", "2", "5", "0", "5", "1", "4">>
    [] s = "claude-sonnet-4-5-20250929" -> <<"c", "l", "a", "u", "d", "e", "-", "s", "o", "n", "n", "e", "t", "-", "4", "-", "5", "-", "2", "0", "2", "5", "0", "9", "2", "9">>
    [] s = "claude-sonnet-4-6-20260217" -> <<"c", "l", "a", "u", "d", "e", "-", "s", "o", "n", "n", "e", "t", "-", "4", "-", "6", "-", "2", "0", "2", "6", "0", "2", "1", "7">>
    [] s = "gpt-4" -> <<"g", "p", "t", "-", "4">>
    [] s = "haiku-3" -> <<"h", "a", "i", "k", "u", "-", "3">>
    [] s = "haiku-3-5" -> <<"h", "a", "i", "k", "u", "-", "3", "-", "5">>
    [] s = "haiku-4-5" -> <<"h", "a", "i", "k", "u", "-", "4", "-", "5">>
    [] s = "opus-3" -> <<"o", "p", "u", "s", "-", "3">>
    [] s = "opus-4" -> <<"o", "p", "u", "s", "-", "4">>
    [] s = "opus-4-1" -> <<"o", "p", "u", "s", "-", "4", "-", "1">>
    [] s = "opus-4-5" -> <<"o", "p", "u", "s", "-", "4", "-", "5">>
    [] s = "opus-4-6" -> <<"o", "p", "u", "s", "-", "4", "-", "6">>
    [] s = "sonnet-3" -> <<"s", "o", "n", "n", "e", "t", "-", "3">>
    [] s = "sonnet-3-5" -> <<"s", "o", "n", "n", "e", "t", "-", "3", "-", "5">>
    [] s = "sonnet-3-7" -> <<"s", "o", "n", "n", "e", "t", "-", "3", "-", "7">>
    [] s = "sonnet-4" -> <<"s", "o", "n", "n", "e", "t", "-", "4">>
    [] s = "sonnet-4-5" -> <<"s", "o", "n", "n", "e", "t", "-", "4", "-", "5">>
    [] s = "unknown-model" -> <<"u", "n", "k", "n", "o", "w", "n", "-", "m", "o", "d", "e", "l">>
    [] s = "unknown-model-20250101" -> <<"u", "n", "k", "n", "o", "w", "n", "-", "m", "o", "d", "e", "l", "-", "2", "0", "2", "5", "0", "1", "0", "1">>

\* a TokenPricing, and null
Price(input, output, cacheWrite, cacheRead) ==
  [isNull |-> FALSE, input |-> input, output |-> output,
   cacheWrite |-> cacheWrite, cacheRead |-> cacheRead]
NullPrice ==
  [isNull |-> TRUE, input |-> Fin(0), output |-> Fin(0),
   cacheWrite |-> Fin(0), cacheRead |-> Fin(0)]

PRICING_MAP ==
  <<
    [key |-> Name("opus-4-6"), price |-> Price(Ratio(5, 1), Ratio(25, 1), Ratio(625, 100), Ratio(5, 10))],
    [key |-> Name("opus-4-5"), price |-> Price(Ratio(5, 1), Ratio(25, 1), Ratio(625, 100), Ratio(5, 10))],
    [key |-> Name("opus-4-1"), price |-> Price(Ratio(15, 1), Ratio(75, 1), Ratio(1875, 100), Ratio(15, 10))],
    [key |-> Name("opus-4"), price |-> Price(Ratio(15, 1), Ratio(75, 1), Ratio(1875, 100), Ratio(15, 10))],
    [key |-> Name("sonnet-4-5"), price |-> Price(Ratio(3, 1), Ratio(15, 1), Ratio(375, 100), Ratio(3, 10))],
    [key |-> Name("sonnet-4"), price |-> Price(Ratio(3, 1), Ratio(15, 1), Ratio(375, 100), Ratio(3, 10))],
    [key |-> Name("sonnet-3-7"), price |-> Price(Ratio(3, 1), Ratio(15, 1), Ratio(375, 100), Ratio(3, 10))],
    [key |-> Name("3-7-sonnet"), price |-> Price(Ratio(3, 1), Ratio(15, 1), Ratio(375, 100), Ratio(3, 10))],
    [key |-> Name("sonnet-3-5"), price |-> Price(Ratio(3, 1), Ratio(15, 1), Ratio(375, 100), Ratio(3, 10))],
    [key |-> Name("3-5-sonnet"), price |-> Price(Ratio(3, 1), Ratio(15, 1), Ratio(375, 100), Ratio(3, 10))],
    [key |-> Name("haiku-4-5"), price |-> Price(Ratio(1, 1), Ratio(5, 1), Ratio(125, 100), Ratio(1, 10))],
    [key |-> Name("haiku-3-5"), price |-> Price(Ratio(8, 10), Ratio(4, 1), Ratio(1, 1), Ratio(8, 100))],
    [key |-> Name("3-5-haiku"), price |-> Price(Ratio(8, 10), Ratio(4, 1), Ratio(1, 1), Ratio(8, 100))],
    [key |-> Name("opus-3"), price |-> Price(Ratio(15, 1), Ratio(75, 1), Ratio(1875, 100), Ratio(15, 10))],
    [key |-> Name("3-opus"), price |-> Price(Ratio(15, 1), Ratio(75, 1), Ratio(1875, 100), Ratio(15, 10))],
    [key |-> Name("sonnet-3"), price |-> Price(Ratio(3, 1), Ratio(15, 1), Ratio(375, 100), Ratio(3, 10))],
    [key |-> Name("3-sonnet"), price |-> Price(Ratio(3, 1), Ratio(15, 1), Ratio(375, 100), Ratio(3, 10))],
    [key |-> Name("haiku-3"), price |-> Price(Ratio(25, 100), Ratio(125, 100), Ratio(3, 10), Ratio(3, 100))],
    [key |-> Name("3-haiku"), price |-> Price(Ratio(25, 100), Ratio(125, 100), Ratio(3, 10), Ratio(3, 100))]
  >>

ClaudePrefix == <<"c", "l", "a", "u", "d", "e", "-">>

\* modelName.match(/^claude-(.+)-\d{8}$/)
MatchesVersioned(modelName) ==
  /\ Len(modelName) >= Len(ClaudePrefix) + 1 + 1 + 8
  /\ SubSeq(modelName, 1, Len(ClaudePrefix)) = ClaudePrefix
  /\ modelName[Len(modelName) - 8] = "-"
  /\ \A i \in (Len(modelName) - 7)..Len(modelName) : modelName[i] \in Digits

\* extractFamilyKey(modelName)
extractFamilyKey(modelName) ==
  IF MatchesVersioned(modelName)
    THEN SubSeq(modelName, Len(ClaudePrefix) + 1, Len(modelName) - 9)
  ELSE modelName

\* PRICING_MAP.get(key) ?? null
RECURSIVE MapGet(_, _)
MapGet(key, i) ==
  IF i > Len(PRICING_MAP) THEN NullPrice
  ELSE IF PRICING_MAP[i].key = key THEN PRICING_MAP[i].price
  ELSE MapGet(key, i + 1)

\* getTokenPricing(modelName)
getTokenPricing(modelName) == MapGet(extractFamilyKey(Name(modelName)), 1)

MaxBreakdowns == 2

\* a CostByTokenType, and null
Costs(inputCost, outputCost, cacheWriteCost, cacheReadCost) ==
  [isNull |-> FALSE, inputCost |-> inputCost, outputCost |-> outputCost,
   cacheWriteCost |-> cacheWriteCost, cacheReadCost |-> cacheReadCost]
NullCosts ==
  [isNull |-> TRUE, inputCost |-> Fin(0), outputCost |-> Fin(0),
   cacheWriteCost |-> Fin(0), cacheReadCost |-> Fin(0)]

\* (tokens * price) / 1_000_000
PerMillion(tokens, price) == Div(Mul(Fin(tokens), price), Fin(1000000))

\* the loop body for a breakdown with a price: each cost += tokens * price / 1e6
AddPriced(acc, mb, price) ==
  Costs(Add(acc.inputCost, PerMillion(mb.inputTokens, price.input)),
        Add(acc.outputCost, PerMillion(mb.outputTokens, price.output)),
        Add(acc.cacheWriteCost, PerMillion(mb.cacheCreationTokens, price.cacheWrite)),
        Add(acc.cacheReadCost, PerMillion(mb.cacheReadTokens, price.cacheRead)))

\* the loop over entry.modelBreakdowns stopping at the first breakdown
\* without a price
RECURSIVE CostLoopStrict(_, _, _, _)
CostLoopStrict(list, i, acc, hasAnyPricing) ==
  IF i > Len(list) THEN (IF hasAnyPricing THEN acc ELSE NullCosts)
  ELSE IF getTokenPricing(list[i].modelName).isNull THEN NullCosts
  ELSE CostLoopStrict(list, i + 1,
                      AddPriced(acc, list[i], getTokenPricing(list[i].modelName)), TRUE)

\* the loop over entry.modelBreakdowns and the return after it
RECURSIVE CostLoop(_, _, _, _)
CostLoop(list, i, acc, hasAnyPricing) ==
  IF i > Len(list) THEN (IF hasAnyPricing THEN acc ELSE NullCosts)
  ELSE IF getTokenPricing(list[i].modelName).isNull
    THEN CostLoop(list, i + 1, acc, hasAnyPricing)
  ELSE CostLoop(list, i + 1,
                AddPriced(acc, list[i], getTokenPricing(list[i].modelName)), TRUE)

\* calculateCostByTokenType(entry)
calculateCostByTokenType(entry) ==
  IF entry.modelBreakdowns.defined /\ Len(entry.modelBreakdowns.list) > 0
    THEN CostLoop(entry.modelBreakdowns.list, 1,
                  Costs(Fin(0), Fin(0), Fin(0), Fin(0)), FALSE)
  ELSE IF Len(entry.models) = 1
    THEN (IF getTokenPricing(entry.models[1]).isNull THEN NullCosts
          ELSE AddPriced(Costs(Fin(0), Fin(0), Fin(0), Fin(0)), entry,
                         getTokenPricing(entry.models[1])))
  ELSE NullCosts

\* the model names of the pricing tests, and names around the versioned form
PricedNames ==
  {"claude-sonnet-4-5-20250929", "claude-sonnet-4-6-20260217",
   "claude-sonnet-4-20250514", "claude-opus-4-6-20260101",
   "claude-opus-4-20250115", "claude-3-opus-20240229",
   "claude-haiku-4-5-20251001", "claude-3-5-sonnet-20241022",
   "claude-3-5-haiku-20241022", "claude-haiku-3-20240307",
   "gpt-4", "unknown-model", "unknown-model-20250101", "sonnet-4",
   "claude-sonnet-4", "claude--20250514", "claude-opus-4-2025011", ""}

BreakdownPool ==
  {Breakdown(name, n) :
     name \in {"claude-sonnet-4-20250514", "claude-opus-4-6-20260101", "gpt-4"},
     n \in {0, 1000000}}

PricedEntries ==
  {Entry("2025-07-01", 1000000, models, modelBreakdowns) :
     models \in {<<>>, <<"claude-sonnet-4-20250514">>, <<"gpt-4">>,
                 <<"claude-sonnet-4-20250514", "claude-opus-4-6-20260101">>},
     modelBreakdowns \in {NoBreakdowns} \cup
       {Breakdowns(list) :
          list \in UNION {[1..len -> BreakdownPool] : len \in 0..MaxBreakdowns}}}

InitPricing ==
  /\ pricedName \in PricedNames
  /\ pricedEntry \in PricedEntries
  /\ pricing = NullPrice
  /\ costs = NullCosts
  /\ kpc = "start"
  /\ CodecIdle
  /\ AggIdle
  /\ ShareIdle
  /\ ParseIdle
  /\ NormIdle
  /\ StatIdle
  /\ CliIdle
  /\ FrameIdle
  /\ StoreIdle
  /\ ButtonIdle
  /\ TabIdle

\* getTokenPricing(modelName)
GetTokenPricing ==
  /\ kpc = "start"
  /\ pricing' = getTokenPricing(pricedName)
  /\ kpc' = "priced"
  /\ UNCHANGED <<pricedName, pricedEntry, costs>>
  /\ UNCHANGED <<codecVars, aggVars, shareVars, parseVars, normVars, statVars, cliVars, frameVars, storeVars, buttonVars, tabVars>>

\* calculateCostByTokenType(entry)
CalculateCostByTokenType ==
  /\ kpc = "start"
  /\ costs' = calculateCostByTokenType(pricedEntry)
  /\ kpc' = "costed"
  /\ UNCHANGED <<pricedName, pricedEntry, pricing>>
  /\ UNCHANGED <<codecVars, aggVars, shareVars, parseVars, normVars, statVars, cliVars, frameVars, storeVars, buttonVars, tabVars>>

NextPricing == GetTokenPricing \/ CalculateCostByTokenType

SpecPricing == InitPricing /\ [][NextPricing]_vars

CostFields ==
  {<<"inputCost", "inputTokens", "input">>, <<"outputCost", "outputTokens", "output">>,
   <<"cacheWriteCost", "cacheCreationTokens", "cacheWrite">>,
   <<"cacheReadCost", "cacheReadTokens", "cacheRead">>}

\* the sum over the breakdowns from i on whose model has a price of
\* tokens x price / 1,000,000, for one token category
RECURSIVE PricedSum(_, _, _)
PricedSum(list, f, i) ==
  IF i > Len(list) THEN Fin(0)
  ELSE Add(IF getTokenPricing(list[i].modelName).isNull THEN Fin(0)
           ELSE Div(Mul(Fin(list[i][f[2]]), getTokenPricing(list[i].modelName)[f[3]]),
                    Fin(1000000)),
           PricedSum(list, f, i + 1))

HasBreakdowns(e) == e.modelBreakdowns.defined /\ e.modelBreakdowns.list # <<>>

\* C22: for an entry with breakdowns calculateCostByTokenType sums tokens x
\* price / 1,000,000 per category over the breakdowns with a known price and
\* is null only if none has one; without breakdowns it prices the entry's own
\* counters exactly when the entry lists one model and that model has a price,
\* and is null otherwise.
C22_CostByTokenType ==
  (kpc = "costed") =>
    /\ HasBreakdowns(pricedEntry) =>
         /\ costs.isNull <=>
              \A i \in 1..Len(pricedEntry.modelBreakdowns.list) :
                getTokenPricing(pricedEntry.modelBreakdowns.list[i].modelName).isNull
         /\ ~costs.isNull =>
              \A f \in CostFields :
                costs[f[1]] = PricedSum(pricedEntry.modelBreakdowns.list, f, 1)
    /\ ~HasBreakdowns(pricedEntry) =>
         /\ ~costs.isNull <=>
              /\ Len(pricedEntry.models) = 1
              /\ ~getTokenPricing(pricedEntry.models[1]).isNull
         /\ ~costs.isNull =>
              \A f \in CostFields :
                costs[f[1]] =
                  Div(Mul(Fin(pricedEntry[f[2]]),
                          getTokenPricing(pricedEntry.models[1])[f[3]]),
                      Fin(1000000))

\* a priced and an unpriced breakdown of a million input tokens each: the
\* cost is the priced one's 3 dollars, whatever the models list says
C22_Witness ==
  /\ kpc = "costed"
  /\ pricedEntry.modelBreakdowns =
       Breakdowns(<<Breakdown("gpt-4", 1000000),
                    Breakdown("claude-sonnet-4-20250514", 1000000)>>)
  /\ pricedEntry.models = <<>>
  /\ ~costs.isNull
  /\ costs.inputCost = Fin(3)
  /\ costs.cacheWriteCost = Ratio(375 * 1000002, 100 * 1000000)

\* the versioned names the tests assert, with the asserted prices
AssertedPrices ==
  [n \in {"claude-sonnet-4-5-20250929", "claude-sonnet-4-6-20260217",
          "claude-sonnet-4-20250514", "claude-opus-4-6-20260101",
          "claude-opus-4-20250115", "claude-3-opus-20240229",
          "claude-haiku-4-5-20251001"} |->
     CASE n \in {"claude-sonnet-4-5-20250929", "claude-sonnet-4-6-20260217",
                 "claude-sonnet-4-20250514"} ->
            Price(Fin(3), Fin(15), Ratio(375, 100), Ratio(3, 10))
       [] n = "claude-opus-4-6-20260101" ->
            Price(Fin(5), Fin(25), Ratio(625, 100), Ratio(5, 10))
       [] n \in {"claude-opus-4-20250115", "claude-3-opus-20240229"} ->
            Price(Fin(15), Fin(75), Ratio(1875, 100), Ratio(15, 10))
       [] n = "claude-haiku-4-5-20251001" ->
            Price(Fin(1), Fin(5), Ratio(125, 100), Ratio(1, 10))]

\* the family key of a name, from the pattern ^claude-(.+)-\d{8}$
FamilyKeyOf(cs) ==
  IF \E mid \in 1..Len(cs) :
       /\ Len(cs) = 7 + mid + 9
       /\ SubSeq(cs, 1, 7) = SubSeq(Name("claude-sonnet-4"), 1, 7)
       /\ cs[7 + mid + 1] = "-"
       /\ \A i \in (7 + mid + 2)..Len(cs) : cs[i] \in Digits
    THEN SubSeq(cs, 8, Len(cs) - 9)
  ELSE cs

TableKeys == {PRICING_MAP[i].key : i \in 1..Len(PRICING_MAP)}

\* the rule of C23: the price is the table's entry for the family key, null
\* for a key not in the table
FamilyKeyRule ==
  (kpc = "priced") =>
    /\ pricing.isNull <=> FamilyKeyOf(Name(pricedName)) \notin TableKeys
    /\ ~pricing.isNull =>
         \E i \in 1..Len(PRICING_MAP) :
           /\ PRICING_MAP[i].key = FamilyKeyOf(Name(pricedName))
           /\ PRICING_MAP[i].price = pricing

\* C23: getTokenPricing looks the family key up in the price table, null for
\* a key not in it, and every versioned name the tests assert as priced
\* resolves to the asserted price.
C23_AssertedNamesPriced ==
  /\ FamilyKeyRule
  /\ (kpc = "priced" /\ pricedName \in DOMAIN AssertedPrices) =>
       pricing = AssertedPrices[pricedName]

\* ---------------------------------------------------------------------------
\* cli/main.ts: buildPayload, beside the web's buildHashPayload
\* ---------------------------------------------------------------------------

MaxLabeled == 2

\* a LabeledInput of the command line
LabeledInput(label, data) == [label |-> label, data |-> data]

\* buildPayload whose wrapper lists the labeled inputs only
buildPayloadLabeledOnly(list) ==
  IF Len(list) = 1 /\ ~(\E i \in DOMAIN list : list[i].label # "")
    THEN [threw |-> FALSE, val |-> Str(list[1].data)]
  ELSE IF \E i \in DOMAIN list : ~JSONparse(list[i].data).ok
    THEN [threw |-> TRUE, val |-> NullStr]
  ELSE IF \E i \in DOMAIN list : list[i].label # ""
    THEN [threw |-> FALSE,
          val |-> Str(JSONstringify(JObj(<<"sources">>,
                    <<JArr([i \in DOMAIN SelectSeq(list, LAMBDA l : l.label # "") |->
                        JObj(<<"label", "data">>,
                             <<JStr(SelectSeq(list, LAMBDA l : l.label # "")[i].label),
                               JSONparse(SelectSeq(list, LAMBDA l : l.label # "")[i].data).v>>)])>>)))]
  ELSE [threw |-> FALSE,
        val |-> Str(JSONstringify(JArr([i \in DOMAIN list |-> JSONparse(list[i].data).v])))]

\* buildPayload(labeled)
buildPayload(list) ==
  IF Len(list) = 1 /\ ~(\E i \in DOMAIN list : list[i].label # "")
    THEN [threw |-> FALSE, val |-> Str(list[1].data)]
  ELSE IF \E i \in DOMAIN list : ~JSONparse(list[i].data).ok
    THEN [threw |-> TRUE, val |-> NullStr]
  ELSE IF \E i \in DOMAIN list : list[i].label # ""
    THEN [threw |-> FALSE,
          val |-> Str(JSONstringify(JObj(<<"sources">>,
                    <<JArr([i \in DOMAIN list |->
                        JObj(<<"label", "data">>,
                             <<JStr(list[i].label), JSONparse(list[i].data).v>>)])>>)))]
  ELSE [threw |-> FALSE,
        val |-> Str(JSONstringify(JArr([i \in DOMAIN list |-> JSONparse(list[i].data).v])))]

\* the inputs as the command line holds them
AsLabeled(inputs) ==
  [i \in DOMAIN inputs |-> LabeledInput(inputs[i].label, inputs[i].content)]

InitPayload ==
  /\ shared \in UNION {[1..m -> ShareInputs] : m \in 0..MaxLabeled}
  /\ payload = [threw |-> FALSE, val |-> NullStr]
  /\ restored = NoInputs
  /\ spc = "start"
  /\ CodecIdle
  /\ AggIdle
  /\ ParseIdle
  /\ NormIdle
  /\ StatIdle
  /\ PriceIdle
  /\ CliIdle
  /\ FrameIdle
  /\ StoreIdle
  /\ ButtonIdle
  /\ TabIdle

\* buildPayload(labeled) on the inputs as given
BuildPayload ==
  /\ spc = "start"
  /\ cliOut' = buildPayload(AsLabeled(shared))
  /\ spc' = "cli"
  /\ UNCHANGED <<shared, payload, restored>>
  /\ UNCHANGED <<codecVars, aggVars, parseVars, normVars, statVars, priceVars, frameVars, storeVars, buttonVars, tabVars>>

\* buildPayload(labeled) on the non-blank inputs, after buildHashPayload(inputs)
BuildPayloadOfNonBlank ==
  /\ spc = "built"
  /\ cliOut' = buildPayload(AsLabeled(SelectSeq(shared, LAMBDA inp : trim(inp.content) # <<>>)))
  /\ spc' = "both"
  /\ UNCHANGED <<shared, payload, restored>>
  /\ UNCHANGED <<codecVars, aggVars, parseVars, normVars, statVars, priceVars, frameVars, storeVars, buttonVars, tabVars>>

NextPayload == BuildPayload \/ BuildHashPayload \/ BuildPayloadOfNonBlank

SpecPayload == InitPayload /\ [][NextPayload]_vars

AnyLabel == \E i \in DOMAIN shared : shared[i].label # ""
AllParse == \A i \in DOMAIN shared : JSONparse(shared[i].content).ok
ValueAt(i) == JSONparse(shared[i].content).v

\* C24: buildPayload gives the raw text of a single unlabeled input, the
\* wrapper {sources: [{label, data}, ...]} over all inputs in order when any
\* label is non-empty, and the bare array of the parsed inputs for two or more
\* unlabeled inputs; buildHashPayload returns what buildPayload returns for the
\* non-blank inputs, and null when there is none.
C24_PayloadShapes ==
  /\ (spc = "cli" /\ Len(shared) = 1 /\ ~AnyLabel) =>
       cliOut = [threw |-> FALSE, val |-> Str(shared[1].content)]
  /\ (spc = "cli" /\ AnyLabel /\ AllParse) =>
       /\ ~cliOut.threw
       /\ cliOut.val.str = JSONstringify(JObj(<<"sources">>,
            <<JArr([i \in DOMAIN shared |->
                 JObj(<<"label", "data">>, <<JStr(shared[i].label), ValueAt(i)>>)])>>))
  /\ (spc = "cli" /\ Len(shared) >= 2 /\ ~AnyLabel /\ AllParse) =>
       /\ ~cliOut.threw
       /\ cliOut.val.str = JSONstringify(JArr([i \in DOMAIN shared |-> ValueAt(i)]))
  /\ (spc = "both") =>
       IF NonBlank = <<>> THEN payload = [threw |-> FALSE, val |-> NullStr]
       ELSE payload = cliOut

\* a labeled and an unlabeled input: the wrapper lists both, the second with
\* the label "", and the web payload is the same text
C24_Witness ==
  /\ spc = "both"
  /\ Len(shared) = 2
  /\ shared[1].label = "L" /\ shared[2].label = ""
  /\ AllParse
  /\ ~cliOut.threw
  /\ payload = cliOut
  /\ Len(Get(JSONparse(cliOut.val.str).v, "sources").el) = 2
  /\ Get(Get(JSONparse(cliOut.val.str).v, "sources").el[2], "label") = JStr("")

\* ---------------------------------------------------------------------------
\* App.tsx: restoreFromHash on any decoded text
\* ---------------------------------------------------------------------------

\* what the sources key of a decoded payload can hold
SourcesValues ==
  {JNum(1), JStr("a"), JNull, JBool(FALSE), JObj(<<>>, <<>>), JArr(<<>>),
   JArr(<<JNull>>), JArr(<<JNum(1)>>),
   JArr(<<JObj(<<"label", "data">>, <<JStr("L"), EmptyReport("daily")>>)>>),
   JArr(<<JObj(<<"data">>, <<JNum(1)>>)>>),
   JArr(<<JObj(<<"label", "data">>, <<JNull, JNum(1)>>),
          JObj(<<"label">>, <<JStr("L")>>)>>)}

FirstElements ==
  {JNull, JNum(1), JStr("daily"), JArr(<<>>), JObj(<<>>, <<>>),
   EmptyReport("daily"), JObj(<<"x">>, <<JNum(1)>>),
   JObj(<<"blocks">>, <<JNum(1)>>), JObj(<<"x", "sessions">>, <<JNum(1), JArr(<<>>)>>)}

DecodedValues ==
  {JNull, JBool(TRUE), JNum(0), JStr(""), JStr("sources"), JArr(<<>>), JObj(<<>>, <<>>),
   EmptyReport("monthly"), JObj(<<"x">>, <<JNum(1)>>)}
  \cup {JObj(<<"sources">>, <<v>>) : v \in SourcesValues}
  \cup {JObj(<<"daily", "sources">>, <<JArr(<<>>), v>>) : v \in SourcesValues}
  \cup {JArr(<<v>>) : v \in FirstElements}
  \cup {JArr(<<v, w>>) : v \in FirstElements, w \in {JNum(1), EmptyReport("weekly")}}

\* decoded texts: JSON texts of every shape, compact and indented, and texts
\* that are not JSON
DecodedTexts ==
  {JSONstringify(v) : v \in DecodedValues}
  \cup {JSONstringifyPretty(v) : v \in DecodedValues}
  \cup {<<>>, <<WS>>, <<Tok("{")>>, <<Tok("["), NumTok(1), Tok(",")>>,
        <<Tok("{"), StrTok("sources"), Tok(":")>>}

InitRestore ==
  /\ shared = <<>>
  /\ payload \in {[threw |-> FALSE, val |-> Str(t)] : t \in DecodedTexts}
  /\ restored = NoInputs
  /\ spc = "built"
  /\ CodecIdle
  /\ AggIdle
  /\ ParseIdle
  /\ NormIdle
  /\ StatIdle
  /\ PriceIdle
  /\ CliIdle
  /\ FrameIdle
  /\ StoreIdle
  /\ ButtonIdle
  /\ TabIdle

NextRestore == RestoreFromHash

SpecRestore == InitRestore /\ [][NextRestore]_vars

Decoded == JSONparse(payload.val.str)

IsReportArray(v) ==
  /\ v.t = "arr" /\ Len(v.el) > 0
  /\ v.el[1].t = "obj"
  /\ \E k \in REPORT_KEYS : HasKey(v.el[1], k)

\* C25: restoreFromHash returns null only for text that is not JSON; a
\* wrapper with a sources key gives one input per source, a bare array whose
\* first element is an object with a report key gives one unlabeled input per
\* element, and any other value gives exactly one unlabeled input.
C25_NullOnlyOnParseFailure ==
  (spc = "restored") =>
    /\ restored.isNull <=> ~Decoded.ok
    /\ (Decoded.ok /\ Decoded.v.t = "obj" /\ HasKey(Decoded.v, "sources")) =>
         Len(restored.list) = Len(Get(Decoded.v, "sources").el)
    /\ (Decoded.ok /\ IsReportArray(Decoded.v)) =>
         /\ Len(restored.list) = Len(Decoded.v.el)
         /\ \A i \in DOMAIN restored.list : restored.list[i].label = JStr("")
    /\ (Decoded.ok /\ ~IsReportArray(Decoded.v)
        /\ ~(Decoded.v.t = "obj" /\ HasKey(Decoded.v, "sources"))) =>
         /\ Len(restored.list) = 1
         /\ restored.list[1].label = JStr("")

(***************************************************************************)
(* C26: what an operation writes.  Objects are held by reference: heap is  *)
(* the sequence of the ModelBreakdown objects, an object's address its     *)
(* index, and the modelBreakdowns of a held entry lists addresses.  The    *)
(* input objects come first; every { ...mb } allocates one more.  The only *)
(* writes of the aggregation code are existing[k] += mb[k] on an object a  *)
(* modelMap refers to, and into buckets, totals and result objects that    *)
(* the call has created itself.                                            *)
(***************************************************************************)
MaxHeld == 2

\* the entry with every address replaced by the object it refers to
Deref(h, e) ==
  IF ~e.modelBreakdowns.defined THEN e
  ELSE [e EXCEPT !.modelBreakdowns =
          Breakdowns([i \in 1..Len(e.modelBreakdowns.list) |-> h[e.modelBreakdowns.list[i]]])]

DerefAll(h, entries) == [i \in 1..Len(entries) |-> Deref(h, entries[i])]

RECURSIVE RefIndex(_, _, _)
\* map.get(modelName) on a map of references: the index of its pair, or 0
RefIndex(modelMap, modelName, i) ==
  IF i > Len(modelMap) THEN 0
  ELSE IF modelMap[i].modelName = modelName THEN i
  ELSE RefIndex(modelMap, modelName, i + 1)

\* map.set(mb.modelName, mb): the map refers to the caller's object
StoreAlias(h, modelMap, mb) ==
  [heap |-> h,
   modelMap |-> Append(modelMap, [modelName |-> h[mb].modelName, ref |-> mb])]

\* map.set(mb.modelName, { ...mb }): the map refers to a new object
StoreCopy(h, modelMap, mb) ==
  [heap |-> Append(h, h[mb]),
   modelMap |-> Append(modelMap, [modelName |-> h[mb].modelName, ref |-> Len(h) + 1])]

RECURSIVE HeapMergeModelMap(_, _, _, _)
\* for (const mb of breakdowns): existing[k] += mb[k], or the first store
HeapMergeModelMap(h, modelMap, refs, i) ==
  IF i > Len(refs) THEN [heap |-> h, modelMap |-> modelMap]
  ELSE LET mb == refs[i]
           at == RefIndex(modelMap, h[mb].modelName, 1)
           stored == StoreCopy(h, modelMap, mb) IN
       IF at > 0
       THEN HeapMergeModelMap([h EXCEPT ![modelMap[at].ref] = AddBreakdown(@, h[mb])],
                              modelMap, refs, i + 1)
       ELSE HeapMergeModelMap(stored.heap, stored.modelMap, refs, i + 1)

\* the key an operation files an entry under; aggregateModelBreakdowns has
\* one map for all entries
HeapKeyOf(keyFn, e) == IF keyFn = "all" THEN Key("") ELSE KeyOf(keyFn, e)

RECURSIVE HeapLoop(_, _, _, _, _)
\* the heap after the accumulation loop of an operation over entries[i..];
\* map holds [key, modelMap] per bucket
HeapLoop(entries, keyFn, i, h, map) ==
  IF i > Len(entries) THEN h
  ELSE LET key == HeapKeyOf(keyFn, entries[i]) IN
       IF key.isNull \/ ~entries[i].modelBreakdowns.defined
       THEN HeapLoop(entries, keyFn, i + 1, h, map)
       ELSE LET at == BucketIndex(map, key, 1)
                map1 == IF at > 0 THEN map
                        ELSE Append(map, [key |-> key, modelMap |-> <<>>])
                j == IF at > 0 THEN at ELSE Len(map1)
                merged == HeapMergeModelMap(h, map1[j].modelMap,
                                            entries[i].modelBreakdowns.list, 1) IN
            HeapLoop(entries, keyFn, i + 1, merged.heap,
                     [map1 EXCEPT ![j].modelMap = merged.modelMap])

RECURSIVE BreakdownLoop(_, _, _)
BreakdownLoop(entries, i, map) ==
  IF i > Len(entries) THEN map
  ELSE BreakdownLoop(entries, i + 1,
                     IF ~entries[i].modelBreakdowns.defined THEN map
                     ELSE MergeModelMap(map, entries[i].modelBreakdowns.list, 1))

\* aggregateModelBreakdowns(entries)
aggregateModelBreakdowns(entries) == BreakdownLoop(entries, 1, <<>>)

\* Array.prototype.toSorted: the sorted copy, and the array it was called on
toSorted(values) ==
  [sorted |-> SortNumbers(values, 1, <<>>), receiver |-> values]

Operations ==
  {[op |-> "groupEntries", keyFn |-> k, cut |-> 0] : k \in KeyFns}
    \cup {[op |-> "mergeNormalizedEntries", keyFn |-> "label", cut |-> c] : c \in 0..MaxHeld}
    \cup {[op |-> "aggregateModelBreakdowns", keyFn |-> "all", cut |-> 0],
          [op |-> "aggregateToMonthly", keyFn |-> "month", cut |-> 0],
          [op |-> "aggregateToMonthlyInline", keyFn |-> "month", cut |-> 0]}

\* what the call returns, the objects holding the fields of h
ResultOfCall(c, h, entries) ==
  LET es == DerefAll(h, entries) IN
  CASE c.op = "groupEntries" -> groupEntries(es, c.keyFn)
    [] c.op = "mergeNormalizedEntries" ->
         mergeNormalizedEntries(<<SubSeq(es, 1, c.cut), SubSeq(es, c.cut + 1, Len(es))>>)
    [] c.op = "aggregateModelBreakdowns" -> aggregateModelBreakdowns(es)
    [] c.op = "aggregateToMonthly" -> aggregateToMonthly(es)
    [] c.op = "aggregateToMonthlyInline" -> aggregateToMonthlyInline(es)

HeldObjects ==
  {<<Breakdown("m1", 1), Breakdown("m1", 3), Breakdown("m2", 2)>>,
   <<Breakdown("m2", 1), Breakdown("m2", 3), Breakdown("m2", 2)>>}

HeldEntry(label, n, refs) ==
  Entry(label, n, <<"m1">>, IF refs = <<0>> THEN NoBreakdowns ELSE Breakdowns(refs))

HeldPool ==
  {HeldEntry("2025-07-01", 1, <<1>>), HeldEntry("2025-07-01", 2, <<1, 2>>),
   HeldEntry("2025-07-02", 3, <<2, 3>>), HeldEntry("2025-07-02", 4, <<3>>),
   HeldEntry("2025-06", 5, <<2>>), HeldEntry("a", 6, <<3, 1, 2>>),
   HeldEntry("a", 7, <<0>>), HeldEntry("a", 8, <<>>)}

HeldValues ==
  {<<>>, <<Fin(2), Fin(1)>>, <<Fin(2), Fin(-3), Fin(1)>>, <<Infinity, Fin(0)>>}

InitFrame ==
  /\ heap \in HeldObjects
  /\ held \in UNION {[1..m -> HeldPool] : m \in 0..MaxHeld}
  /\ heldValues \in HeldValues
  /\ heapBefore = heap
  /\ valuesBefore = heldValues
  /\ called = [op |-> "", keyFn |-> "", cut |-> 0]
  /\ firstResult = <<>>
  /\ secondResult = <<>>
  /\ fpc = "start"
  /\ CodecIdle
  /\ AggIdle
  /\ ShareIdle
  /\ ParseIdle
  /\ NormIdle
  /\ StatIdle
  /\ PriceIdle
  /\ CliIdle
  /\ StoreIdle
  /\ ButtonIdle
  /\ TabIdle

\* one of the four aggregation operations is called on the held entries
CallAggregation ==
  /\ fpc = "start"
  /\ \E c \in Operations :
       /\ c.cut <= Len(held)
       /\ called' = c
       /\ firstResult' = ResultOfCall(c, heap, held)
       /\ heap' = HeapLoop(held, c.keyFn, 1, heap, <<>>)
  /\ heapBefore' = heap
  /\ fpc' = "called"
  /\ UNCHANGED <<held, heldValues, valuesBefore, secondResult>>
  /\ UNCHANGED <<codecVars, aggVars, shareVars, parseVars, normVars, statVars, priceVars, cliVars, storeVars, buttonVars, tabVars>>

\* computeStats is called on the held value array
CallComputeStats ==
  /\ fpc = "start"
  /\ called' = [op |-> "computeStats", keyFn |-> "", cut |-> 0]
  /\ firstResult' = computeStats(heldValues)
  /\ valuesBefore' = heldValues
  /\ heldValues' = toSorted(heldValues).receiver
  /\ fpc' = "called"
  /\ UNCHANGED <<heap, heapBefore, held, secondResult>>
  /\ UNCHANGED <<codecVars, aggVars, shareVars, parseVars, normVars, statVars, priceVars, cliVars, storeVars, buttonVars, tabVars>>

\* the same operation is called again on the same input
CallAgain ==
  /\ fpc = "called"
  /\ IF called.op = "computeStats"
     THEN /\ secondResult' = computeStats(heldValues)
          /\ heldValues' = toSorted(heldValues).receiver
          /\ UNCHANGED heap
     ELSE /\ secondResult' = ResultOfCall(called, heap, held)
          /\ heap' = HeapLoop(held, called.keyFn, 1, heap, <<>>)
          /\ UNCHANGED heldValues
  /\ fpc' = "again"
  /\ UNCHANGED <<heapBefore, held, valuesBefore, called, firstResult>>
  /\ UNCHANGED <<codecVars, aggVars, shareVars, parseVars, normVars, statVars, priceVars, cliVars, storeVars, buttonVars, tabVars>>

NextFrame == CallAggregation \/ CallComputeStats \/ CallAgain

SpecFrame == InitFrame /\ [][NextFrame]_vars

\* the input objects: those the heap held before the call
InputObjects == 1..Len(heapBefore)

\* two breakdowns of one model met in the same map, so one was added to the
\* other
SameNamed(c, entries) ==
  \E i, j \in 1..Len(entries) :
    /\ ~HeapKeyOf(c.keyFn, entries[i]).isNull
    /\ HeapKeyOf(c.keyFn, entries[i]) = HeapKeyOf(c.keyFn, entries[j])
    /\ entries[i].modelBreakdowns.defined /\ entries[j].modelBreakdowns.defined
    /\ \E a \in 1..Len(entries[i].modelBreakdowns.list) :
         \E b \in 1..Len(entries[j].modelBreakdowns.list) :
           /\ (i < j \/ (i = j /\ a < b))
           /\ heapBefore[entries[i].modelBreakdowns.list[a]].modelName
                = heapBefore[entries[j].modelBreakdowns.list[b]].modelName

\* C26: after groupEntries, mergeNormalizedEntries of two arrays,
\* aggregateModelBreakdowns, aggregateToMonthly or computeStats has returned,
\* every input ModelBreakdown object and the input value array hold the values
\* they held before the call, and once the operation has been called again on
\* the same input the second result equals the first.
C26_ArgumentsUntouched ==
  fpc \in {"called", "again"} =>
    /\ \A a \in InputObjects : heap[a] = heapBefore[a]
    /\ heldValues = valuesBefore
    /\ fpc = "again" => secondResult = firstResult

\* same-named models of two entries were summed by a merge of two arrays, and
\* the operation was called a second time
C26_Witness ==
  /\ fpc = "again"
  /\ called.op = "mergeNormalizedEntries"
  /\ called.cut = 1
  /\ Len(held) = 2
  /\ SameNamed(called, held)
  /\ Len(heap) > Len(heapBefore)
  /\ Len(firstResult) = 1
  /\ firstResult[1].modelBreakdowns.list[1].inputTokens = 5

(***************************************************************************)
(* C27: the short-link routes of the worker.  The key/value binding is a   *)
(* map, the sequence of its [key, value] pairs; an id is a sequence of     *)
(* characters; a request body is what c.req.json() makes of it; the        *)
(* template `/#data=${data}` is the pair of its prefix and data.  An error *)
(* thrown in a handler is answered by the framework with status 500.       *)
(***************************************************************************)
MaxRequests == 3

RECURSIVE KvIndex(_, _, _)
KvIndex(store, key, i) ==
  IF i > Len(store) THEN 0
  ELSE IF store[i].key = key THEN i
  ELSE KvIndex(store, key, i + 1)

\* CCUSAGEVIEW_SHORT_URLS.put(key, value)
KvPut(store, key, value) ==
  IF KvIndex(store, key, 1) > 0
  THEN [store EXCEPT ![KvIndex(store, key, 1)].value = value]
  ELSE Append(store, [key |-> key, value |-> value])

\* CCUSAGEVIEW_SHORT_URLS.get(key): the value, or null
KvGet(store, key) ==
  IF KvIndex(store, key, 1) > 0
  THEN [isNull |-> FALSE, str |-> store[KvIndex(store, key, 1)].value]
  ELSE [isNull |-> TRUE, str |-> ""]

Response(code, id, location, error) ==
  [status |-> code, id |-> id, location |-> location, error |-> error]

\* nanoid(size): some string of size characters of the url-safe alphabet
nanoid(size) == {[i \in 1..size |-> c] : c \in {"a", "B", "_"}}

\* the POST /s route of api, mounted at /api: the response and the store
\* after it, for the body that c.req.json() returned and the id nanoid drew
PostS(store, body, id) ==
  IF Nullish(body)
  THEN [response |-> Response(500, <<>>, <<>>, "Internal Server Error"), kv |-> store]
  ELSE LET data == Get(body, "data") IN
       IF Falsy(data) \/ data.t # "str"
       THEN [response |-> Response(400, <<>>, <<>>, "data is required"), kv |-> store]
       ELSE [response |-> Response(201, id, <<>>, ""), kv |-> KvPut(store, id, data.s)]

\* the GET /s/:id route
GetSId(store, id) ==
  LET data == KvGet(store, id) IN
  IF data.isNull \/ data.str = ""
  THEN Response(404, <<>>, <<>>, "")
  ELSE Response(302, <<>>, <<"/#data=", data.str>>, "")

\* request bodies, as the JSON values they hold
PostBodies ==
  {JObj(<<"data">>, <<JStr("eJ")>>), JObj(<<"data">>, <<JStr("x")>>),
   JObj(<<"other", "data">>, <<JNum(1), JStr("x")>>),
   JObj(<<>>, <<>>), JObj(<<"data">>, <<JNum(123)>>), JObj(<<"data">>, <<JStr("")>>),
   JObj(<<"data">>, <<JNull>>), JObj(<<"data">>, <<JArr(<<JStr("x")>>)>>),
   JNum(1), JArr(<<>>), JNull}

RequestedIds == nanoid(10) \cup {<<"n", "o", "n", "e">>}

InitStore ==
  /\ kv = <<>>
  /\ kvBefore = <<>>
  /\ posted = <<>>
  /\ request = [method |-> "", body |-> JUndefined, id |-> <<>>]
  /\ response = Response(0, <<>>, <<>>, "")
  /\ served = 0
  /\ CodecIdle
  /\ AggIdle
  /\ ShareIdle
  /\ ParseIdle
  /\ NormIdle
  /\ StatIdle
  /\ PriceIdle
  /\ CliIdle
  /\ FrameIdle
  /\ ButtonIdle
  /\ TabIdle

\* POST /api/s
PostApiS ==
  /\ served < MaxRequests
  /\ \E body \in PostBodies : \E id \in nanoid(10) :
       LET answer == PostS(kv, body, id) IN
       /\ request' = [method |-> "POST", body |-> body, id |-> <<>>]
       /\ response' = answer.response
       /\ kv' = answer.kv
       /\ posted' = IF answer.response.status = 201
                    THEN Append(posted, [id |-> id, data |-> Get(body, "data").s])
                    ELSE posted
  /\ kvBefore' = kv
  /\ served' = served + 1
  /\ UNCHANGED <<codecVars, aggVars, shareVars, parseVars, normVars, statVars, priceVars, cliVars, frameVars, buttonVars, tabVars>>

\* GET /s/<id>
GetS ==
  /\ served < MaxRequests
  /\ \E id \in RequestedIds :
       /\ request' = [method |-> "GET", body |-> JUndefined, id |-> id]
       /\ response' = GetSId(kv, id)
  /\ kvBefore' = kv
  /\ served' = served + 1
  /\ UNCHANGED <<kv, posted>>
  /\ UNCHANGED <<codecVars, aggVars, shareVars, parseVars, normVars, statVars, priceVars, cliVars, frameVars, buttonVars, tabVars>>

NextStore == PostApiS \/ GetS

SpecStore == InitStore /\ [][NextStore]_vars

\* the data of the last request is missing or is not a string
DataMissing == Get(request.body, "data").t # "str"

\* C27: once POST /api/s with a non-empty string data has succeeded with
\* status 201 and a 10-character id, every later GET /s/<that id> redirects to
\* /#data=<data> with exactly that string; GET /s/<id> for an id never stored
\* answers 404; a POST whose data is missing or not a string answers 400 and
\* stores nothing.
C27_ShortLinks ==
  /\ \A i \in 1..Len(posted) : Len(posted[i].id) = 10 /\ posted[i].data # ""
  /\ request.method = "GET" =>
       /\ \A i \in 1..Len(posted) :
            posted[i].id = request.id =>
              /\ response.status = 302
              /\ response.location = <<"/#data=", posted[i].data>>
       /\ (\A i \in 1..Len(posted) : posted[i].id # request.id) => response.status = 404
  /\ (request.method = "POST" /\ DataMissing) =>
       /\ response.status = 400
       /\ kv = kvBefore

(***************************************************************************)
(* C28: the rewriting of a report in the vendor shape.                     *)
(***************************************************************************)
\* the daily elements of the value given to adaptReport
GivenDaily ==
  IF isObj(given) /\ Get(given, "daily").t = "arr" THEN Get(given, "daily").el ELSE <<>>

\* the first daily element has costUSD and has no totalCost
FirstMatches ==
  /\ GivenDaily # <<>>
  /\ HasKey(GivenDaily[1], "costUSD")
  /\ ~HasKey(GivenDaily[1], "totalCost")

\* the field, or 0 when the element has none or has null
FieldOrZero(e, field) == IF Get(e, field).t \in {"undefined", "null"} THEN JNum(0) ELSE Get(e, field)

\* the keys of the models mapping of e, none when models is no mapping
ModelKeys(e) == IF Get(e, "models").t = "obj" THEN Get(e, "models").keys ELSE <<>>

\* r is e under the vendor field mapping
Rewritten(e, r) ==
  /\ r.t = "obj"
  /\ Get(r, "totalCost") = FieldOrZero(e, "costUSD")
  /\ Get(r, "cacheReadTokens") = FieldOrZero(e, "cachedInputTokens")
  /\ Get(r, "cacheCreationTokens") = JNum(0)
  /\ Get(r, "modelsUsed") = JArr([i \in 1..Len(ModelKeys(e)) |-> JStr(ModelKeys(e)[i])])
  /\ Get(r, "modelBreakdowns").t = "arr"
  /\ Len(Get(r, "modelBreakdowns").el) = Len(ModelKeys(e))
  /\ \A i \in 1..Len(ModelKeys(e)) :
       /\ Get(Get(r, "modelBreakdowns").el[i], "modelName") = JStr(ModelKeys(e)[i])
       /\ Get(Get(r, "modelBreakdowns").el[i], "cost") = JNum(0)
  /\ ~HasKey(r, "costUSD")

\* C28: adaptReport decides from the first daily element only, and when that
\* element has costUSD and no totalCost every daily element is rewritten:
\* totalCost from costUSD and cacheReadTokens from cachedInputTokens (0 if
\* missing), cacheCreationTokens 0, modelsUsed the keys of models in order,
\* one modelBreakdowns record per key with cost 0, and no costUSD left.
C28_VendorRewrite ==
  (npc = "adapted" /\ FirstMatches) =>
    /\ ~adaptOut.threw
    /\ Get(adaptOut.val, "daily").t = "arr"
    /\ Len(Get(adaptOut.val, "daily").el) = Len(GivenDaily)
    /\ \A i \in 1..Len(GivenDaily) :
         Rewritten(GivenDaily[i], Get(adaptOut.val, "daily").el[i])

(***************************************************************************)
(* C29: components/ShareButton.tsx.  handleShare runs to its first await   *)
(* in the click that starts it and continues when the request settles;     *)
(* every setTimeout callback is a step of its own.  The button is disabled *)
(* while the rendered status is loading.  A request is known by its place  *)
(* in settled, which holds "" until the request has settled.               *)
(***************************************************************************)
MaxClicks == 4

Hashes == {"", "#", "#data=eJ"}
StartsWithData(h) == h = "#data=eJ"

InitButton ==
  /\ status = "idle"
  /\ locationHash \in Hashes
  /\ inFlight = {}
  /\ timers = 0
  /\ settled = <<>>
  /\ CodecIdle
  /\ AggIdle
  /\ ShareIdle
  /\ ParseIdle
  /\ NormIdle
  /\ StatIdle
  /\ PriceIdle
  /\ CliIdle
  /\ FrameIdle
  /\ StoreIdle
  /\ TabIdle

\* a click on the enabled button: handleShare up to await ...$post(...), or
\* to its return when the hash holds no data
HandleShare ==
  /\ status # "loading"
  /\ Len(settled) < MaxClicks
  /\ IF ~StartsWithData(locationHash)
     THEN UNCHANGED <<status, inFlight, settled>>
     ELSE /\ status' = "loading"
          /\ inFlight' = inFlight \cup {Len(settled) + 1}
          /\ settled' = Append(settled, "")
  /\ UNCHANGED <<locationHash, timers>>
  /\ UNCHANGED <<codecVars, aggVars, shareVars, parseVars, normVars, statVars, priceVars, cliVars, frameVars, storeVars, tabVars>>

\* the application replaces window.location.hash
HashChange ==
  /\ locationHash' \in Hashes \ {locationHash}
  /\ UNCHANGED <<status, inFlight, timers, settled>>
  /\ UNCHANGED <<codecVars, aggVars, shareVars, parseVars, normVars, statVars, priceVars, cliVars, frameVars, storeVars, tabVars>>

\* the rest of handleShare for one request: the response is not ok, or the
\* link was copied, or something threw; each sets the status and a timer
Settle ==
  /\ \E r \in inFlight : \E outcome \in {"notOk", "copied", "thrown"} :
       /\ status' = IF outcome = "copied" THEN "copied" ELSE "error"
       /\ settled' = [settled EXCEPT ![r] = IF outcome = "copied" THEN "copied" ELSE "error"]
       /\ inFlight' = inFlight \ {r}
  /\ timers' = timers + 1
  /\ UNCHANGED locationHash
  /\ UNCHANGED <<codecVars, aggVars, shareVars, parseVars, normVars, statVars, priceVars, cliVars, frameVars, storeVars, tabVars>>

\* setTimeout(() => setStatus("idle"), 2000) comes due
ResetTimer ==
  /\ timers > 0
  /\ status' = "idle"
  /\ timers' = timers - 1
  /\ UNCHANGED <<locationHash, inFlight, settled>>
  /\ UNCHANGED <<codecVars, aggVars, shareVars, parseVars, normVars, statVars, priceVars, cliVars, frameVars, storeVars, tabVars>>

NextButton == HandleShare \/ HashChange \/ Settle \/ ResetTimer

SpecButton == InitButton /\ [][NextButton]_vars

\* every request settles and every timer comes due
FairButton == SpecButton /\ WF_vars(Settle) /\ WF_vars(ResetTimer)

\* a settled request ended in copied or error, and the status returns to idle
SettledThenIdle ==
  /\ [](\A r \in 1..Len(settled) : r \notin inFlight => settled[r] \in {"copied", "error"})
  /\ (status \in {"copied", "error"}) ~> (status = "idle")

\* C29: at most one short-link request is in flight at any time, and the
\* status is loading from the start of a request until that request settles,
\* whatever clicks and reset timers of earlier requests happen in between.
C29_OneRequestInFlight ==
  /\ Cardinality(inFlight) <= 1
  /\ inFlight # {} => status = "loading"

(***************************************************************************)
(* C30: the tabs of components/InputView.tsx over the inputs and activeTab *)
(* state of App.tsx.  An input is known by the number createSourceInput    *)
(* gave it; indices are those of the code, from 0.                         *)
(***************************************************************************)
MaxTabs == 4

\* inputs.filter((_, i) => i !== index)
WithoutIndex(list, index) ==
  [i \in 1..(Len(list) - (IF index < Len(list) THEN 1 ELSE 0)) |->
     IF i <= index THEN list[i] ELSE list[i + 1]]

\* addTab(): the new input goes last and is made active
addTab(list, fresh) == [inputs |-> Append(list, fresh), activeTab |-> Len(list)]

\* the mutant of removeTab that moves the active index only past the end
removeTabClampOnly(list, active, index) ==
  IF Len(list) <= 1 THEN [inputs |-> list, activeTab |-> active]
  ELSE LET next == WithoutIndex(list, index) IN
       [inputs |-> next,
        activeTab |-> IF active >= Len(next) THEN Len(next) - 1 ELSE active]

\* removeTab(index)
removeTab(list, active, index) ==
  IF Len(list) <= 1 THEN [inputs |-> list, activeTab |-> active]
  ELSE LET next == WithoutIndex(list, index) IN
       [inputs |-> next,
        activeTab |-> IF active >= Len(next) THEN Len(next) - 1
                      ELSE IF active > index THEN active - 1
                      ELSE active]

InitTabs ==
  /\ tabInputs = <<1>>
  /\ activeTab = 0
  /\ created = 1
  /\ lastTabOp = [op |-> "", index |-> 0]
  /\ inputsWas = <<1>>
  /\ activeWas = 0
  /\ CodecIdle
  /\ AggIdle
  /\ ShareIdle
  /\ ParseIdle
  /\ NormIdle
  /\ StatIdle
  /\ PriceIdle
  /\ CliIdle
  /\ FrameIdle
  /\ StoreIdle
  /\ ButtonIdle

\* a click on "+"
AddTab ==
  /\ created < MaxTabs
  /\ tabInputs' = addTab(tabInputs, created + 1).inputs
  /\ activeTab' = addTab(tabInputs, created + 1).activeTab
  /\ created' = created + 1
  /\ lastTabOp' = [op |-> "add", index |-> 0]
  /\ inputsWas' = tabInputs
  /\ activeWas' = activeTab
  /\ UNCHANGED <<codecVars, aggVars, shareVars, parseVars, normVars, statVars, priceVars, cliVars, frameVars, storeVars, buttonVars>>

\* removeTab(index) for the index of an input
RemoveTab ==
  /\ \E index \in 0..(Len(tabInputs) - 1) :
       /\ tabInputs' = removeTab(tabInputs, activeTab, index).inputs
       /\ activeTab' = removeTab(tabInputs, activeTab, index).activeTab
       /\ lastTabOp' = [op |-> "remove", index |-> index]
  /\ inputsWas' = tabInputs
  /\ activeWas' = activeTab
  /\ UNCHANGED created
  /\ UNCHANGED <<codecVars, aggVars, shareVars, parseVars, normVars, statVars, priceVars, cliVars, frameVars, storeVars, buttonVars>>

\* a click on the tab at index i, shown when there are two inputs or more
SelectTab ==
  /\ Len(tabInputs) > 1
  /\ \E i \in 0..(Len(tabInputs) - 1) :
       /\ activeTab' = i
       /\ lastTabOp' = [op |-> "select", index |-> i]
  /\ inputsWas' = tabInputs
  /\ activeWas' = activeTab
  /\ UNCHANGED <<tabInputs, created>>
  /\ UNCHANGED <<codecVars, aggVars, shareVars, parseVars, normVars, statVars, priceVars, cliVars, frameVars, storeVars, buttonVars>>

NextTabs == AddTab \/ RemoveTab \/ SelectTab

SpecTabs == InitTabs /\ [][NextTabs]_vars

\* C30: after any sequence of add-tab, remove-tab and select-tab operations
\* from one input with active index 0 the input list is not empty and
\* 0 <= activeTab < inputs.length; removing the last remaining tab changes
\* nothing, removing a tab before the active one keeps the same input active,
\* and adding a tab makes the new, last tab active.
C30_TabsInRange ==
  /\ Len(tabInputs) >= 1
  /\ 0 <= activeTab /\ activeTab < Len(tabInputs)
  /\ (lastTabOp.op = "remove" /\ Len(inputsWas) = 1) =>
       (tabInputs = inputsWas /\ activeTab = activeWas)
  /\ (lastTabOp.op = "remove" /\ Len(inputsWas) > 1) =>
       /\ Len(tabInputs) = Len(inputsWas) - 1
       /\ lastTabOp.index < activeWas => tabInputs[activeTab + 1] = inputsWas[activeWas + 1]
  /\ lastTabOp.op = "add" =>
       /\ Len(tabInputs) = Len(inputsWas) + 1
       /\ activeTab = Len(tabInputs) - 1
       /\ tabInputs[activeTab + 1] \notin {inputsWas[i] : i \in 1..Len(inputsWas)}
  /\ lastTabOp.op = "select" => (tabInputs = inputsWas /\ activeTab = lastTabOp.index)

\* the first of three tabs was removed while the second was active, after
\* tabs had been added, removed and selected
C30_Witness ==
  /\ lastTabOp = [op |-> "remove", index |-> 0]
  /\ inputsWas = <<2, 3, 4>>
  /\ activeWas = 1
  /\ tabInputs = <<3, 4>>
  /\ activeTab = 0

====
